---- MODULE Spec2Model ----
(***************************************************************************)
(* Device registry, device cache and Startup protocol of the mcv devices   *)
(* package (mcv/pkg/accelerator/devices/device.go) and of its              *)
(* static-configuration variant (the second device.go of the repository).  *)
(***************************************************************************)
EXTENDS Integers, Sequences, FiniteSets, TLC

\* ------------------------------------------------------------------------
\* Program constants
\* ------------------------------------------------------------------------

\* const ( MOCK DeviceType = iota; AMD; NVML; ROCM )
MOCK == 0
AMD == 1
NVML == 2
ROCM == 3
DeviceType == {MOCK, AMD, NVML, ROCM}

\* config.GPU, and one hardware type that is not config.GPU
GPU == "gpu"
HwTypes == {GPU, "cpu"}

\* cache Time-To-Live, in seconds (10 * time.Minute)
CacheTTL == 600

\* the live and the stub device-cache paths, and the static config path
DefaultCacheFilePath == "/tmp/device_cache.json"
StubbedCacheFile == "/tmp/stubbed_device_cache.json"
configFilePath == "/tmp/device_config.json"
Paths == {DefaultCacheFilePath, StubbedCacheFile, configFilePath}

\* ------------------------------------------------------------------------
\* Bounds
\* ------------------------------------------------------------------------

\* the clock starts at 0 and then takes the values k*CacheTTL + j,
\* 1 <= k <= MaxEpochs, j <= MaxJitter
MaxEpochs == 1
MaxJitter == 1
\* distinct startup functions that can be offered for one (hwType, backend)
MaxFuncs == 2
\* goroutines that call GetRegistry concurrently
MaxThreads == 3
\* device IDs the preflight check can report as matched, and as unmatched
MaxIDs == 1
\* entries of torch_compile_cache, and kernel entries of one Triton cache
MaxOuter == 3
MaxKernels == 2
\* entries of a tar stream
MaxEntries == 2

Instants == {0} \cup {k * CacheTTL + j : k \in 1..MaxEpochs, j \in 0..MaxJitter}

\* ------------------------------------------------------------------------
\* Values
\* ------------------------------------------------------------------------

EmptyMap == [x \in {} |-> "nil"]

\* a Go map with key k set to v
MapPut(m, k, v) == [x \in (DOMAIN m) \cup {k} |-> IF x = k THEN v ELSE m[x]]

\* file contents: no file, a file that does not decode as JSON (empty,
\* truncated or garbage), or an encoded DeviceCache
Absent == [kind |-> "absent"]
Corrupt == [kind |-> "corrupt"]
Snapshot(ts, devs) == [kind |-> "json", Timestamp |-> ts, Devices |-> devs]

\* The Device a startup function returns: the function registered under
\* (a, d) as f yields a device of DevType d and HwType a.
deviceStartup(a, d, f) == [DevType |-> d, HwType |-> a, fn |-> f]

\* ------------------------------------------------------------------------
\* Registry
\* ------------------------------------------------------------------------

\* a *Registry: ptr identifies the instance (0 is the nil pointer), Registry
\* is its map hwType -> (DeviceType -> startup function)
NilRegistry == [ptr |-> 0, Registry |-> EmptyMap]
newRegistry == [ptr |-> 1, Registry |-> EmptyMap]

\* _, ok := r.Registry[a][d]
Has(r, a, d) == a \in DOMAIN r /\ d \in DOMAIN r[a]

\* MustRegister that adds d to the map the hwType already has
MustRegisterAdd(r, a, d, f) ==
    IF Has(r, a, d) THEN r
    ELSE MapPut(r, a, MapPut(IF a \in DOMAIN r THEN r[a] ELSE EmptyMap, d, f))

\* MustRegister without the check for an existing entry
MustRegisterOverwrite(r, a, d, f) ==
    MapPut(r, a, MapPut(EmptyMap, d, f))

MustRegister(r, a, d, f) ==
    IF Has(r, a, d) THEN r
    ELSE MapPut(r, a, MapPut(EmptyMap, d, f))

\* Unregister ranges over the map in Go's unspecified order and deletes d
\* from the first hwType that has it: the set of possible results.
Unregister(r, d) ==
    LET holders == {a \in DOMAIN r : d \in DOMAIN r[a]}
    IN  IF holders = {} THEN {r}
        ELSE {MapPut(r, a, [x \in (DOMAIN r[a]) \ {d} |-> r[a][x]]) :
                 a \in holders}

\* addDeviceInterface without the AMD/ROCM preference
addDeviceInterfaceNoPreference(r, dtype, accType, f) ==
    {[reg |-> MustRegister(r, accType, dtype, f), err |-> FALSE]}

\* the possible results [reg, err] of addDeviceInterface
addDeviceInterface(r, dtype, accType, f) ==
    IF accType = GPU
    THEN IF dtype = AMD
         THEN {[reg |-> MustRegister(u, accType, dtype, f), err |-> FALSE] :
                  u \in Unregister(r, ROCM)}
         ELSE IF dtype = ROCM /\ Has(r, GPU, AMD)
         THEN {[reg |-> r, err |-> TRUE]}
         ELSE {[reg |-> MustRegister(r, accType, dtype, f), err |-> FALSE]}
    ELSE {[reg |-> MustRegister(r, accType, dtype, f), err |-> FALSE]}

\* ------------------------------------------------------------------------
\* State
\* ------------------------------------------------------------------------

VARIABLES
    variant,         \* "mcv": device.go with stub mode; "static": the
                     \* device.go variant with the static config file
    stubEnabled,     \* config.IsStubEnabled()
    libs,            \* the vendor libraries that load on this host
    cacheFilePath,   \* var cacheFilePath
    onceDone,        \* whether once.Do has run
    deviceRegistry,  \* var deviceRegistry *Registry
    files,           \* the files on disk, by path
    now,             \* the wall clock, in seconds
    initLog,         \* backends registered by the last registerDevices
    lastCall,        \* what the most recent call did and returned
    writer,          \* a process part-way through writing the cache file
    observed,        \* what another process last found in the cache file
    threads,         \* goroutines calling GetRegistry at the same time
    cli,             \* one run of the command-line program
    vllm,            \* one use of the vLLM cache package
    signing          \* one call of SignImage

vars == <<variant, stubEnabled, libs, cacheFilePath, onceDone,
          deviceRegistry, files, now, initLog, lastCall, writer, observed,
          threads, cli, vllm, signing>>

\* the startup function each backend offers for itself
NativeFunc == 1

NoDevice == [DevType |-> -1, HwType |-> "", fn |-> 0]
NoCall == [op |-> "none", a |-> "", dev |-> NoDevice, via |-> "none",
           reads |-> {}, writes |-> {}, started |-> <<>>, shut |-> <<>>,
           miss |-> "n/a", saved |-> "n/a", err |-> FALSE,
           cacheBefore |-> Absent, before |-> EmptyMap, d |-> -1, fn |-> 0,
           ret |-> 0]

\* no goroutine is inside GetRegistry; no command line is being run
NoThreads == [pc |-> <<>>, got |-> <<>>, m |-> 0, runs |-> 0, waited |-> {}]
NoRun == [pc |-> "none"]
\* the vLLM cache package is not in use; SignImage is not called
NoCache == [pc |-> "none"]
NoSigning == [pc |-> "none"]

IdleWriter == [pc |-> "idle", op |-> "none", device |-> NoDevice, ts |-> 0,
               out |-> "ok", prev |-> Absent]
NotObserved == [seen |-> FALSE, writing |-> FALSE, c |-> Absent,
                prev |-> Absent, new |-> Absent, err |-> "n/a"]

\* ------------------------------------------------------------------------
\* Registration at start-up
\* ------------------------------------------------------------------------

\* amdCheck, nvmlCheck and rocmCheck (d: AMD, NVML, ROCM): each registers
\* its backend when its library loads; the results are [reg, err] as for
\* addDeviceInterface (err: nothing was registered).
libCheck(r, L, d) ==
    IF d \in L THEN addDeviceInterface(r, d, GPU, NativeFunc)
    ELSE {[reg |-> r, err |-> TRUE]}
staticCheck(r) == addDeviceInterface(r, MOCK, GPU, NativeFunc)

Logged(c, d) == IF c.err THEN {} ELSE {d}

\* the three real checks in order: results [reg, log]
realChecks(r, L) ==
    UNION {UNION {{[reg |-> c.reg,
                    log |-> Logged(x, AMD) \cup Logged(y, NVML)
                              \cup Logged(c, ROCM)] :
                       c \in libCheck(y.reg, L, ROCM)} :
                  y \in libCheck(x.reg, L, NVML)} :
           x \in libCheck(r, L, AMD)}

\* registerDevices running the real checks after the static one in stub mode
registerDevicesKeepReal(r, stub, path, L) ==
    IF stub
    THEN UNION {{[reg |-> x.reg, path |-> StubbedCacheFile,
                  log |-> Logged(c, MOCK) \cup x.log] :
                    x \in realChecks(c.reg, L)} :
                c \in staticCheck(r)}
    ELSE {[reg |-> c.reg, path |-> path, log |-> c.log] : c \in realChecks(r, L)}

\* registerDevices of device.go: results [reg, path, log], path being the
\* value of cacheFilePath afterwards
registerDevices(r, stub, path, L) ==
    IF stub
    THEN {[reg |-> c.reg, path |-> StubbedCacheFile, log |-> Logged(c, MOCK)] :
             c \in staticCheck(r)}
    ELSE {[reg |-> c.reg, path |-> path, log |-> c.log] : c \in realChecks(r, L)}

\* GetRegistry in the current state: the possible
\* [reg (the *Registry returned), path, once, log]
GetRegistry ==
    IF onceDone
    THEN {[reg |-> deviceRegistry, path |-> cacheFilePath, log |-> initLog]}
    ELSE {[reg |-> [ptr |-> newRegistry.ptr, Registry |-> c.reg],
           path |-> c.path, log |-> c.log] :
             c \in IF variant = "mcv"
                   THEN registerDevices(newRegistry.Registry, stubEnabled,
                                        cacheFilePath, libs)
                   \* the static-config variant has no stub branch
                   ELSE {[reg |-> x.reg, path |-> cacheFilePath,
                          log |-> x.log] :
                            x \in realChecks(newRegistry.Registry, libs)}}

\* ------------------------------------------------------------------------
\* Device cache
\* ------------------------------------------------------------------------

\* loadAndUpdateCache with the expiry comparison inverted
loadAndUpdateCacheInverted(c, t) ==
    IF c.kind = "absent" THEN [err |-> "not-present", cache |-> Absent]
    ELSE IF c.kind # "json" THEN [err |-> "corrupt", cache |-> Absent]
    ELSE IF t - c.Timestamp <= CacheTTL THEN [err |-> "expired", cache |-> Absent]
    ELSE [err |-> "none", cache |-> c]

\* loadAndUpdateCache without the expiry check
loadAndUpdateCacheNoTTL(c, t) ==
    IF c.kind = "absent" THEN [err |-> "not-present", cache |-> Absent]
    ELSE IF c.kind # "json" THEN [err |-> "corrupt", cache |-> Absent]
    ELSE [err |-> "none", cache |-> c]

\* loadAndUpdateCache of device.go on file content c at time t:
\* [err, cache]; err is "none" or the reason of the miss
loadAndUpdateCache(c, t) ==
    IF c.kind = "absent" THEN [err |-> "not-present", cache |-> Absent]
    ELSE IF c.kind # "json" THEN [err |-> "corrupt", cache |-> Absent]
    ELSE IF t - c.Timestamp > CacheTTL THEN [err |-> "expired", cache |-> Absent]
    ELSE [err |-> "none", cache |-> c]

\* loadCache of the static-config variant
loadCache(c, t) ==
    IF c.kind = "absent" THEN [err |-> "not-present", cache |-> Absent]
    ELSE IF c.kind # "json" THEN [err |-> "corrupt", cache |-> Absent]
    ELSE IF t - c.Timestamp > CacheTTL THEN [err |-> "expired", cache |-> Absent]
    ELSE [err |-> "none", cache |-> c]

\* loadStaticConfig with the expiry check of loadCache applied at time 601
loadStaticConfigExpiring(c) ==
    IF c.kind = "absent" THEN [err |-> "not-present", cache |-> Absent]
    ELSE IF c.kind # "json" THEN [err |-> "corrupt", cache |-> Absent]
    ELSE IF CacheTTL + 1 - c.Timestamp > CacheTTL
         THEN [err |-> "expired", cache |-> Absent]
    ELSE [err |-> "none", cache |-> c]

\* loadStaticConfig: no expiry check
loadStaticConfig(c) ==
    IF c.kind = "absent" THEN [err |-> "not-present", cache |-> Absent]
    ELSE IF c.kind # "json" THEN [err |-> "corrupt", cache |-> Absent]
    ELSE [err |-> "none", cache |-> c]

\* What can happen inside saveCache: everything works; a device query
\* fails (the device is left out of the snapshot); os.Create fails;
\* Encode fails after the file was truncated.
SaveOutcomes == {"ok", "infoErr", "createErr", "encodeErr"}

CachedDevice(device) == [DeviceType |-> device.DevType, HwType |-> device.HwType]

\* saveCache that leaves Timestamp at its zero value
saveCacheZeroTime(c, a, device, t, o) ==
    IF o = "createErr" THEN [file |-> c, err |-> TRUE]
    ELSE IF o = "encodeErr" THEN [file |-> Corrupt, err |-> TRUE]
    ELSE IF o = "infoErr" THEN [file |-> Snapshot(0, EmptyMap), err |-> FALSE]
    ELSE [file |-> Snapshot(0, MapPut(EmptyMap, a, CachedDevice(device))),
          err |-> FALSE]

\* saveCache that refuses to replace an existing file (O_EXCL)
saveCacheExclusive(c, a, device, t, o) ==
    IF o = "createErr" \/ c.kind # "absent" THEN [file |-> c, err |-> TRUE]
    ELSE IF o = "encodeErr" THEN [file |-> Corrupt, err |-> TRUE]
    ELSE IF o = "infoErr" THEN [file |-> Snapshot(t, EmptyMap), err |-> FALSE]
    ELSE [file |-> Snapshot(t, MapPut(EmptyMap, a, CachedDevice(device))),
          err |-> FALSE]

\* saveCache that keeps the entry a snapshot on disk already has for a
saveCacheKeepEntry(c, a, device, t, o) ==
    IF o = "createErr" THEN [file |-> c, err |-> TRUE]
    ELSE IF o = "encodeErr" THEN [file |-> Corrupt, err |-> TRUE]
    ELSE IF o = "infoErr" THEN [file |-> Snapshot(t, EmptyMap), err |-> FALSE]
    ELSE IF c.kind = "json" /\ a \in DOMAIN c.Devices
    THEN [file |-> Snapshot(t, c.Devices), err |-> FALSE]
    ELSE [file |-> Snapshot(t, MapPut(EmptyMap, a, CachedDevice(device))),
          err |-> FALSE]

\* saveCache(map[string]Device{a: device}) at time t with outcome o on the
\* file content c: [file, err]
saveCache(c, a, device, t, o) ==
    IF o = "createErr" THEN [file |-> c, err |-> TRUE]
    ELSE IF o = "encodeErr" THEN [file |-> Corrupt, err |-> TRUE]
    ELSE IF o = "infoErr" THEN [file |-> Snapshot(t, EmptyMap), err |-> FALSE]
    ELSE [file |-> Snapshot(t, MapPut(EmptyMap, a, CachedDevice(device))),
          err |-> FALSE]

\* ------------------------------------------------------------------------
\* Startup
\* ------------------------------------------------------------------------

\* The record of a call that ends here.  A scoped caller (SummarizeGPUs)
\* defers Shutdown on the device it got and fails when it got none or when
\* GetAllSummaries fails (sumErr); Startup itself hands the device out.
\* SummarizeGPUs without the check for a nil device
FinishNoNilCheck(rec, scoped, sumErr) ==
    IF ~scoped THEN rec
    ELSE [rec EXCEPT !.shut = <<rec.dev>>, !.err = sumErr]

Finish(rec, scoped, sumErr) ==
    IF ~scoped THEN rec
    ELSE IF rec.dev = NoDevice THEN [rec EXCEPT !.err = TRUE]
    ELSE [rec EXCEPT !.shut = <<rec.dev>>, !.err = sumErr]

\* Startup(a) of device.go
StartupMcv(a, op, scoped) ==
    LET path0 == cacheFilePath
        lc == loadAndUpdateCache(files[path0], now)
        hit == lc.err = "none" /\ a \in DOMAIN lc.cache.Devices
        base == [NoCall EXCEPT !.op = op, !.a = a, !.reads = {path0},
                               !.miss = lc.err,
                               !.cacheBefore = files[path0]]
    IN  \E g \in GetRegistry, sumErr \in (IF scoped THEN BOOLEAN ELSE {FALSE}) :
          LET reg == g.reg.Registry IN
          /\ deviceRegistry' = g.reg
          /\ onceDone' = TRUE
          /\ cacheFilePath' = g.path
          /\ initLog' = g.log
          /\ IF hit /\ Has(reg, a, lc.cache.Devices[a].DeviceType)
             THEN LET d == lc.cache.Devices[a].DeviceType
                      device == deviceStartup(a, d, reg[a][d])
                  IN  /\ files' = files
                      /\ lastCall' = Finish([base EXCEPT !.dev = device,
                                                !.via = "cache",
                                                !.started = <<device>>],
                                            scoped, sumErr)
             ELSE IF a \in DOMAIN reg /\ DOMAIN reg[a] # {}
             THEN \E d \in DOMAIN reg[a], o \in SaveOutcomes :
                    LET device == deviceStartup(a, d, reg[a][d])
                        sv == saveCache(files[g.path], a, device, now, o)
                    IN  /\ files' = [files EXCEPT ![g.path] = sv.file]
                        /\ lastCall' = Finish([base EXCEPT !.dev = device,
                                 !.via = "probe", !.started = <<device>>,
                                 !.writes = IF o = "createErr" THEN {}
                                            ELSE {g.path},
                                 !.saved = o],
                               scoped, sumErr)
             ELSE /\ files' = files
                  /\ lastCall' = Finish(base, scoped, sumErr)

\* Startup(a) of the static-config variant
StartupStatic(a, op, scoped) ==
    LET sc == loadStaticConfig(files[configFilePath])
        lc == loadCache(files[cacheFilePath], now)
        hit == lc.err = "none" /\ a \in DOMAIN lc.cache.Devices
        base == [NoCall EXCEPT !.op = op, !.a = a,
                               !.cacheBefore = files[cacheFilePath]]
    IN  \E sumErr \in (IF scoped THEN BOOLEAN ELSE {FALSE}) :
        IF sc.err = "none" /\ a \notin DOMAIN sc.cache.Devices
        THEN \* static config present but no entry: no device, no GetRegistry
             /\ UNCHANGED <<deviceRegistry, onceDone, cacheFilePath, initLog,
                            files>>
             /\ lastCall' = Finish([base EXCEPT !.reads = {configFilePath},
                                                !.via = "static"],
                                   scoped, sumErr)
        ELSE \E g \in GetRegistry :
          LET reg == g.reg.Registry IN
          /\ deviceRegistry' = g.reg
          /\ onceDone' = TRUE
          /\ cacheFilePath' = g.path
          /\ initLog' = g.log
          /\ IF sc.err = "none"
             THEN LET d == sc.cache.Devices[a].DeviceType IN
                  /\ files' = files
                  /\ lastCall' =
                       IF Has(reg, a, d)
                       THEN Finish([base EXCEPT !.reads = {configFilePath},
                                      !.via = "static",
                                      !.dev = deviceStartup(a, d, reg[a][d]),
                                      !.started =
                                         <<deviceStartup(a, d, reg[a][d])>>],
                                   scoped, sumErr)
                       ELSE Finish([base EXCEPT !.reads = {configFilePath},
                                                !.via = "static"],
                                   scoped, sumErr)
             ELSE LET rd == {configFilePath, cacheFilePath}
                      b2 == [base EXCEPT !.reads = rd, !.miss = lc.err]
                  IN
                  IF hit /\ Has(reg, a, lc.cache.Devices[a].DeviceType)
                  THEN LET d == lc.cache.Devices[a].DeviceType
                           device == deviceStartup(a, d, reg[a][d])
                       IN  /\ files' = files
                           /\ lastCall' = Finish([b2 EXCEPT !.dev = device,
                                                     !.via = "cache",
                                                     !.started = <<device>>],
                                                 scoped, sumErr)
                  ELSE IF a \in DOMAIN reg /\ DOMAIN reg[a] # {}
                  THEN \E d \in DOMAIN reg[a], o \in SaveOutcomes :
                         LET device == deviceStartup(a, d, reg[a][d])
                             sv == saveCache(files[g.path], a, device, now, o)
                         IN  /\ files' = [files EXCEPT ![g.path] = sv.file]
                             /\ lastCall' = Finish([b2 EXCEPT !.dev = device,
                                      !.via = "probe",
                                      !.started = <<device>>,
                                      !.writes = IF o = "createErr" THEN {}
                                                 ELSE {g.path},
                                      !.saved = o],
                                    scoped, sumErr)
                  ELSE /\ files' = files
                       /\ lastCall' = Finish(b2, scoped, sumErr)

Startup(a) ==
    /\ IF variant = "mcv" THEN StartupMcv(a, "Startup", FALSE)
       ELSE StartupStatic(a, "Startup", FALSE)
    /\ UNCHANGED <<variant, stubEnabled, libs, threads, cli, vllm, signing, now, writer, observed>>

\* SummarizeGPUs: Startup(config.GPU) with a deferred Shutdown
SummarizeGPUs ==
    /\ IF variant = "mcv" THEN StartupMcv(GPU, "SummarizeGPUs", TRUE)
       ELSE StartupStatic(GPU, "SummarizeGPUs", TRUE)
    /\ UNCHANGED <<variant, stubEnabled, libs, threads, cli, vllm, signing, now, writer, observed>>

\* ------------------------------------------------------------------------
\* updateCache
\* ------------------------------------------------------------------------

\* the orders in which the nested range over the registry can visit its
\* (hwType, DeviceType) pairs: every order that keeps one hwType together
RangeOrders(reg) ==
    LET Pairs == {<<a, d>> : a \in DOMAIN reg, d \in DeviceType} \cap
                 {p \in HwTypes \X DeviceType : Has(reg, p[1], p[2])}
        n == Cardinality(Pairs)
    IN
    {s \in [1..n -> Pairs] :
        /\ \A i, j \in 1..n : i # j => s[i] # s[j]
        /\ \A i, j, k \in 1..n :
              (i < j /\ j < k /\ s[i][1] = s[k][1]) => s[j][1] = s[i][1]}

\* the probe loop of updateCache over the pairs still to visit, with the
\* outcome of each saveCache: [file, started, found]
RECURSIVE probeLoop(_, _, _, _, _)
probeLoop(order, outs, c, reg, t) ==
    IF order = <<>> THEN [file |-> c, started |-> <<>>, found |-> FALSE]
    ELSE LET a == Head(order)[1]
             d == Head(order)[2]
             device == deviceStartup(a, d, reg[a][d])
             sv == saveCache(c, a, device, t, Head(outs))
         IN  IF sv.err
             THEN LET rest == probeLoop(Tail(order), Tail(outs), sv.file, reg, t)
                  IN  [rest EXCEPT !.started = <<device>> \o @]
             ELSE [file |-> sv.file, started |-> <<device>>, found |-> TRUE]

updateCache ==
    /\ variant = "mcv"
    /\ \E rmOk \in BOOLEAN, g \in GetRegistry :
         LET path0 == cacheFilePath
             removed == files[path0].kind # "absent" /\ rmOk
             files1 == IF removed THEN [files EXCEPT ![path0] = Absent]
                       ELSE files
             reg == g.reg.Registry
         IN  \E order \in RangeOrders(reg) :
             \E outs \in [1..Len(order) -> SaveOutcomes] :
               LET r == probeLoop(order, outs, files1[g.path], reg, now) IN
               /\ deviceRegistry' = g.reg
               /\ onceDone' = TRUE
               /\ cacheFilePath' = g.path
               /\ initLog' = g.log
               /\ files' = [files1 EXCEPT ![g.path] = r.file]
               /\ lastCall' = [NoCall EXCEPT !.op = "updateCache",
                     !.reads = {path0},
                     !.cacheBefore = files[path0],
                     !.writes = (IF removed THEN {path0} ELSE {}) \cup
                                (IF r.file # files1[g.path] THEN {g.path}
                                 ELSE {}),
                     !.started = r.started,
                     !.via = IF r.found THEN "probe" ELSE "none",
                     !.err = ~r.found]
    /\ UNCHANGED <<variant, stubEnabled, libs, threads, cli, vllm, signing, now, writer, observed>>

\* ------------------------------------------------------------------------
\* Environment
\* ------------------------------------------------------------------------

\* time passes
Tick ==
    /\ \E t \in Instants : t > now /\ now' = t
    /\ lastCall' = NoCall
    /\ UNCHANGED <<variant, stubEnabled, libs, threads, cli, vllm, signing, cacheFilePath, onceDone,
                   deviceRegistry, files, initLog, writer, observed>>

\* the snapshots a cache or config file can hold at time t
DevMaps == {EmptyMap} \cup
           {MapPut(EmptyMap, GPU, [DeviceType |-> d, HwType |-> GPU]) :
               d \in DeviceType}
CacheContents(t) ==
    {Absent, Corrupt} \cup
    {Snapshot(ts, m) : ts \in {i \in Instants : i <= t}, m \in DevMaps}

Init ==
    /\ variant \in {"mcv", "static"}
    /\ stubEnabled \in (IF variant = "mcv" THEN BOOLEAN ELSE {FALSE})
    /\ libs \in SUBSET {AMD, NVML, ROCM}
    /\ cacheFilePath = DefaultCacheFilePath
    /\ onceDone = FALSE
    /\ deviceRegistry = NilRegistry
    /\ now = 0
    /\ \E c \in CacheContents(now),
          s \in (IF stubEnabled
                 THEN {Absent, Corrupt,
                       Snapshot(0, MapPut(EmptyMap, GPU,
                                          [DeviceType |-> MOCK,
                                           HwType |-> GPU]))}
                 ELSE {Absent}),
          k \in (IF variant = "static"
                 THEN {Absent, Corrupt}
                          \cup {Snapshot(0, m) : m \in DevMaps}
                 ELSE {Absent}) :
         files = [p \in Paths |->
                    IF p = DefaultCacheFilePath THEN c
                    ELSE IF p = StubbedCacheFile THEN s ELSE k]
    /\ initLog = {}
    /\ lastCall = NoCall
    /\ writer = IdleWriter
    /\ observed = NotObserved
    /\ threads = NoThreads
    /\ cli = NoRun
    /\ vllm = NoCache
    /\ signing = NoSigning

Next ==
    \/ \E a \in HwTypes : Startup(a)
    \/ SummarizeGPUs
    \/ updateCache
    \/ Tick

Spec == Init /\ [][Next]_vars

\* ------------------------------------------------------------------------
\* The registry operations called directly
\* ------------------------------------------------------------------------

\* a registry a caller builds with &Registry{...} and hands to SetRegistry
CallerRegistry == [ptr |-> 2, Registry |-> EmptyMap]

RegistryFrame ==
    UNCHANGED <<variant, stubEnabled, libs, threads, cli, vllm, signing, files, now, writer, observed>>

CallGetRegistry ==
    /\ \E g \in GetRegistry :
         /\ deviceRegistry' = g.reg
         /\ cacheFilePath' = g.path
         /\ initLog' = g.log
         /\ lastCall' = [NoCall EXCEPT !.op = "GetRegistry",
                                       !.before = deviceRegistry.Registry,
                                       !.ret = g.reg.ptr]
    /\ onceDone' = TRUE
    /\ RegistryFrame

\* SetRegistry(registry): install it and run registerDevices on it
SetRegistry(registry) ==
    /\ \E c \in registerDevices(registry.Registry, stubEnabled,
                                cacheFilePath, libs) :
         /\ deviceRegistry' = [ptr |-> registry.ptr, Registry |-> c.reg]
         /\ cacheFilePath' = c.path
         /\ initLog' = c.log
    /\ lastCall' = [NoCall EXCEPT !.op = "SetRegistry",
                                  !.before = registry.Registry,
                                  !.ret = registry.ptr]
    /\ UNCHANGED onceDone
    /\ RegistryFrame

CallMustRegister(a, d, f) ==
    /\ deviceRegistry.ptr # 0
    /\ deviceRegistry' = [deviceRegistry EXCEPT
                            !.Registry = MustRegister(@, a, d, f)]
    /\ lastCall' = [NoCall EXCEPT !.op = "MustRegister", !.a = a, !.d = d,
                                  !.fn = f,
                                  !.before = deviceRegistry.Registry]
    /\ UNCHANGED <<cacheFilePath, onceDone, initLog>>
    /\ RegistryFrame

CallUnregister(d) ==
    /\ deviceRegistry.ptr # 0
    /\ \E u \in Unregister(deviceRegistry.Registry, d) :
         deviceRegistry' = [deviceRegistry EXCEPT !.Registry = u]
    /\ lastCall' = [NoCall EXCEPT !.op = "Unregister", !.d = d,
                                  !.before = deviceRegistry.Registry]
    /\ UNCHANGED <<cacheFilePath, onceDone, initLog>>
    /\ RegistryFrame

\* addDeviceInterface as the backend checks call it: each backend offers
\* its own startup function
CallAddDeviceInterface(d, a) ==
    /\ deviceRegistry.ptr # 0
    /\ \E c \in addDeviceInterface(deviceRegistry.Registry, d, a, NativeFunc) :
         /\ deviceRegistry' = [deviceRegistry EXCEPT !.Registry = c.reg]
         /\ lastCall' = [NoCall EXCEPT !.op = "addDeviceInterface", !.a = a,
                                       !.d = d, !.fn = NativeFunc,
                                       !.err = c.err,
                                       !.before = deviceRegistry.Registry]
    /\ UNCHANGED <<cacheFilePath, onceDone, initLog>>
    /\ RegistryFrame

\* the hosts the registry operations are exercised on: no vendor library,
\* ROCm only, all three
RegistryHosts == {{}, {ROCM}, {AMD, NVML, ROCM}}

InitRegistry ==
    /\ variant = "mcv"
    /\ stubEnabled \in BOOLEAN
    /\ libs \in (IF stubEnabled THEN {{}} ELSE RegistryHosts)
    /\ cacheFilePath = DefaultCacheFilePath
    /\ onceDone = FALSE
    /\ deviceRegistry = NilRegistry
    /\ now = 0
    /\ files = [p \in Paths |-> Absent]
    /\ initLog = {}
    /\ lastCall = NoCall
    /\ writer = IdleWriter
    /\ observed = NotObserved
    /\ threads = NoThreads
    /\ cli = NoRun
    /\ vllm = NoCache
    /\ signing = NoSigning

NextRegistry ==
    \/ CallGetRegistry
    \/ \E r \in {CallerRegistry, deviceRegistry} : SetRegistry(r)
    \/ \E a \in HwTypes, d \in DeviceType, f \in 1..MaxFuncs : CallMustRegister(a, d, f)
    \/ \E d \in DeviceType : CallUnregister(d)
    \/ \E a \in HwTypes, d \in DeviceType : CallAddDeviceInterface(d, a)

SpecRegistry == InitRegistry /\ [][NextRegistry]_vars

\* ------------------------------------------------------------------------
\* Two processes on one host: one writes the cache file, one loads it
\* ------------------------------------------------------------------------

RaceFrame ==
    UNCHANGED <<variant, stubEnabled, libs, threads, cli, vllm, signing, cacheFilePath, onceDone,
                deviceRegistry, initLog, lastCall>>

\* A process enters saveCache (from Startup's probe) or updateCache with
\* the device d it started; saveCache takes the timestamp first.
WriterStart(op, d, o) ==
    /\ writer.pc = "idle"
    /\ writer' = [pc |-> IF op = "updateCache" THEN "remove" ELSE "create",
                  op |-> op,
                  device |-> deviceStartup(GPU, d, NativeFunc),
                  ts |-> now,
                  out |-> o,
                  prev |-> files[cacheFilePath]]
    /\ observed' = NotObserved
    /\ UNCHANGED <<files, now>>
    /\ RaceFrame

\* updateCache: os.Stat, then os.Remove of the old file
WriterRemove ==
    /\ writer.pc = "remove"
    /\ \E rmOk \in BOOLEAN :
         files' = IF files[cacheFilePath].kind # "absent" /\ rmOk
                  THEN [files EXCEPT ![cacheFilePath] = Absent]
                  ELSE files
    \* the timestamp of the snapshot is taken when saveCache is entered
    /\ writer' = [writer EXCEPT !.pc = "create", !.ts = now]
    /\ UNCHANGED <<now, observed>>
    /\ RaceFrame

\* saveCache: os.Create truncates the file in place
WriterCreate ==
    /\ writer.pc = "create"
    /\ IF writer.out = "createErr"
       THEN /\ writer' = [writer EXCEPT !.pc = "idle"]
            /\ UNCHANGED files
       ELSE /\ writer' = [writer EXCEPT !.pc = "encode"]
            /\ files' = [files EXCEPT ![cacheFilePath] = Corrupt]
    /\ UNCHANGED <<now, observed>>
    /\ RaceFrame

\* saveCache: Encode writes the snapshot into the created file
WriterEncode ==
    /\ writer.pc = "encode"
    /\ files' = [files EXCEPT ![cacheFilePath] =
                   saveCache(@, GPU, writer.device, writer.ts, writer.out).file]
    /\ writer' = [writer EXCEPT !.pc = "idle"]
    /\ UNCHANGED <<now, observed>>
    /\ RaceFrame

\* another process calls loadAndUpdateCache
ReaderLoad ==
    /\ observed' = [seen |-> TRUE,
                    writing |-> writer.pc # "idle",
                    c |-> files[cacheFilePath],
                    prev |-> writer.prev,
                    new |-> saveCache(writer.prev, GPU, writer.device,
                                      writer.ts, writer.out).file,
                    err |-> loadAndUpdateCache(files[cacheFilePath], now).err]
    /\ UNCHANGED <<files, now, writer>>
    /\ RaceFrame

RaceTick ==
    /\ \E t \in Instants : t > now /\ now' = t
    /\ UNCHANGED <<files, writer, observed>>
    /\ RaceFrame

InitRace ==
    /\ variant = "mcv"
    /\ stubEnabled = FALSE
    /\ libs = {}
    /\ cacheFilePath = DefaultCacheFilePath
    /\ onceDone = FALSE
    /\ deviceRegistry = NilRegistry
    /\ now = 0
    /\ \E c \in CacheContents(now) :
         files = [p \in Paths |-> IF p = DefaultCacheFilePath THEN c ELSE Absent]
    /\ initLog = {}
    /\ lastCall = NoCall
    /\ writer = IdleWriter
    /\ observed = NotObserved
    /\ threads = NoThreads
    /\ cli = NoRun
    /\ vllm = NoCache
    /\ signing = NoSigning

NextRace ==
    \/ \E op \in {"saveCache", "updateCache"}, d \in DeviceType,
          o \in SaveOutcomes : WriterStart(op, d, o)
    \/ WriterRemove
    \/ WriterCreate
    \/ WriterEncode
    \/ ReaderLoad
    \/ RaceTick

SpecRace == InitRace /\ [][NextRace]_vars

\* ------------------------------------------------------------------------
\* Goroutines calling GetRegistry at the same time
\* ------------------------------------------------------------------------

\* once.Do(f) is sync.Once: a call that finds the once done returns at
\* once; otherwise it takes the once's mutex, looks again, runs f if the
\* once is still not done, marks it done and releases the mutex.
\* threads.pc[t] is the position of goroutine t, threads.m the holder of
\* the mutex (0: free), threads.runs the number of runs of f,
\* threads.got[t] the instance GetRegistry returned to t (0: not yet) and
\* threads.waited the goroutines that found the once done under the mutex.

Threads == 1..MaxThreads

\* under the mutex f is run again although the once is done
onceRunsUnderLockAlways(done) == TRUE

\* under the mutex: f runs when the once is not done
onceRunsUnderLock(done) == ~done

OnceFrame ==
    UNCHANGED <<variant, stubEnabled, libs, files, now, lastCall, writer,
                observed, cli, vllm, signing>>

\* GetRegistry entered: the first look at the once
OnceDo(t) ==
    /\ threads.pc[t] = "idle"
    /\ threads' = [threads EXCEPT
                     !.pc[t] = IF onceDone THEN "return" ELSE "slow"]
    /\ UNCHANGED <<deviceRegistry, onceDone, cacheFilePath, initLog>>
    /\ OnceFrame

\* the mutex is taken and the once looked at again
OnceLock(t) ==
    /\ threads.pc[t] = "slow"
    /\ threads.m = 0
    /\ threads' = IF onceRunsUnderLock(onceDone)
                  THEN [threads EXCEPT !.pc[t] = "f", !.m = t]
                  ELSE [threads EXCEPT !.pc[t] = "return",
                                       !.waited = @ \cup {t}]
    /\ UNCHANGED <<deviceRegistry, onceDone, cacheFilePath, initLog>>
    /\ OnceFrame

\* f: deviceRegistry = newRegistry(); registerDevices(deviceRegistry);
\* every newRegistry() is another instance. Then the once is marked done
\* and the mutex released.
OnceF(t) ==
    /\ threads.pc[t] = "f"
    /\ threads.m = t
    /\ \E c \in registerDevices(newRegistry.Registry, stubEnabled,
                                 cacheFilePath, libs) :
         /\ deviceRegistry' = [ptr |-> newRegistry.ptr + threads.runs,
                               Registry |-> c.reg]
         /\ cacheFilePath' = c.path
         /\ initLog' = c.log
    /\ onceDone' = TRUE
    /\ threads' = [threads EXCEPT !.pc[t] = "return", !.m = 0,
                                  !.runs = @ + 1]
    /\ OnceFrame

\* return deviceRegistry
OnceReturn(t) ==
    /\ threads.pc[t] = "return"
    /\ threads' = [threads EXCEPT !.pc[t] = "done",
                                  !.got[t] = deviceRegistry.ptr]
    /\ UNCHANGED <<deviceRegistry, onceDone, cacheFilePath, initLog>>
    /\ OnceFrame

InitOnce ==
    /\ variant = "mcv"
    /\ stubEnabled \in BOOLEAN
    /\ libs \in RegistryHosts
    /\ cacheFilePath = DefaultCacheFilePath
    /\ onceDone = FALSE
    /\ deviceRegistry = NilRegistry
    /\ now = 0
    /\ files = [p \in Paths |-> Absent]
    /\ initLog = {}
    /\ lastCall = NoCall
    /\ writer = IdleWriter
    /\ observed = NotObserved
    /\ threads = [pc |-> [t \in Threads |-> "idle"],
                  got |-> [t \in Threads |-> 0],
                  m |-> 0, runs |-> 0, waited |-> {}]
    /\ cli = NoRun
    /\ vllm = NoCache
    /\ signing = NoSigning

NextOnce ==
    \/ \E t \in Threads : OnceDo(t)
    \/ \E t \in Threads : OnceLock(t)
    \/ \E t \in Threads : OnceF(t)
    \/ \E t \in Threads : OnceReturn(t)

SpecOnce == InitOnce /\ [][NextOnce]_vars

\* ------------------------------------------------------------------------
\* The command-line program: flags and image names
\* ------------------------------------------------------------------------

exitNormal == 0
exitExtractError == 1
exitCreateError == 2
exitLogError == 3

\* A string is the sequence of its characters. The character classes of
\* imageNameRegex, over the characters that occur in ImageNames:
LowerDigit == {"a", "i", "o", "q", "v", "1", "5"}     \* [a-z0-9]
Word == LowerDigit \cup {"Q", "V", "_"}               \* \w
\* the longest tag is one character and MaxTagTail more
MaxTagTail == 127

RECURSIVE compEnds(_, _)
RECURSIVE digitEnds(_, _)
RECURSIVE morePathEnds(_, _)
RECURSIVE tagTailEnds(_, _, _)

\* [a-z0-9]+([._-][a-z0-9]+)* matched from position i: the positions just
\* behind a match
compEnds(s, i) ==
    IF i > Len(s) \/ s[i] \notin LowerDigit THEN {}
    ELSE {i + 1} \cup compEnds(s, i + 1)
           \cup (IF i + 1 <= Len(s) /\ s[i + 1] \in {".", "_", "-"}
                 THEN compEnds(s, i + 2) ELSE {})

\* [0-9]+ from i
digitEnds(s, i) ==
    IF i > Len(s) \/ s[i] \notin {"1", "5"} THEN {}
    ELSE {i + 1} \cup digitEnds(s, i + 1)

\* (\/[a-z0-9]+([._-][a-z0-9]+)*)* from i
morePathEnds(s, i) ==
    {i} \cup (IF i <= Len(s) /\ s[i] = "/"
              THEN UNION {morePathEnds(s, j) : j \in compEnds(s, i + 1)}
              ELSE {})

\* [\w.-]{0,127} from i, n characters of it already matched
tagTailEnds(s, i, n) ==
    {i} \cup (IF n < MaxTagTail /\ i <= Len(s) /\ s[i] \in Word \cup {".", "-"}
              THEN tagTailEnds(s, i + 1, n + 1) ELSE {})

\* regexp.MatchString(imageNameRegex, s): the pattern is anchored at both
\* ends
imageNameRegex(s) ==
    LET \* (:[0-9]+)? from i
        portEnds(i) ==
            {i} \cup (IF i <= Len(s) /\ s[i] = ":"
                      THEN digitEnds(s, i + 1) ELSE {})
        \* ([a-z0-9]+([._-][a-z0-9]+)*(:[0-9]+)?/)? from the start
        hostEnds ==
            {1} \cup {k + 1 :
                         k \in {j \in UNION {portEnds(c) : c \in compEnds(s, 1)} :
                                   j <= Len(s) /\ s[j] = "/"}}
        \* (?::[\w][\w.-]{0,127})? from i
        tagEnds(i) ==
            {i} \cup (IF i + 1 <= Len(s) /\ s[i] = ":" /\ s[i + 1] \in Word
                      THEN tagTailEnds(s, i + 2, 0) ELSE {})
        paths == UNION {compEnds(s, h) : h \in hostEnds}
        names == UNION {morePathEnds(s, p) : p \in paths}
    IN  (Len(s) + 1) \in UNION {tagEnds(n) : n \in names}

\* validateImageName: "nil" or the error
validateImageName(imageName) ==
    IF imageName = <<>> THEN "--image is required"
    ELSE IF ~imageNameRegex(imageName) THEN "invalid image name"
    ELSE "nil"

\* quay.io/a:V1, a:5/q_1, Q/a, a//q and the empty string
ImageNames ==
    {<<>>,
     <<"q", "i", "a", "-", "v", ".", "i", "o", "/", "a", ":", "V", "1">>,
     <<"a", ":", "5", "/", "q", "_", "1">>,
     <<"Q", "/", "a">>,
     <<"a", "/", "/", "q">>}

\* ------------------------------------------------------------------------
\* The command-line program: the handlers
\* ------------------------------------------------------------------------

\* actionCount++ for a flag that is set
Count(flag) == IF flag THEN 1 ELSE 0

\* validateFlagCombinations without the check of --dir
validateFlagCombinationsNoDir(createFlag, extractFlag, hwInfoFlag, gpuInfoFlag, checkCompatFlag, imageName, cacheDirName, stubFlag) ==
    LET actionCount == Count(createFlag) + Count(extractFlag)
                         + Count(hwInfoFlag) + Count(gpuInfoFlag)
                         + Count(checkCompatFlag)
    IN  IF actionCount > 1 THEN "only one action flag"
        ELSE IF actionCount = 0 THEN "at least one action"
        ELSE IF (createFlag \/ extractFlag \/ checkCompatFlag)
                    /\ imageName = <<>>
        THEN "--image is required"
        ELSE IF stubFlag /\ ~(hwInfoFlag \/ gpuInfoFlag) THEN "--stub"
        ELSE "nil"

\* validateFlagCombinations: "nil" or the error
validateFlagCombinations(createFlag, extractFlag, hwInfoFlag, gpuInfoFlag, checkCompatFlag, imageName, cacheDirName, stubFlag) ==
    LET actionCount == Count(createFlag) + Count(extractFlag)
                         + Count(hwInfoFlag) + Count(gpuInfoFlag)
                         + Count(checkCompatFlag)
    IN  IF actionCount > 1 THEN "only one action flag"
        ELSE IF actionCount = 0 THEN "at least one action"
        ELSE IF (createFlag \/ extractFlag \/ checkCompatFlag)
                    /\ imageName = <<>>
        THEN "--image is required"
        ELSE IF createFlag /\ cacheDirName = "" THEN "--dir is required"
        ELSE IF stubFlag /\ ~(hwInfoFlag \/ gpuInfoFlag) THEN "--stub"
        ELSE "nil"

\* A process: whether it has exited and with which code, the calls it has
\* made into the client, config and imgbuild packages (in order), the
\* warnings it has logged and config's GPU switch.

\* os.Exit(code): nothing that follows in the program is executed
Exit(P, code) == IF P.exited THEN P ELSE [P EXCEPT !.exited = TRUE, !.code = code]
Call(P, ev) == IF P.exited THEN P ELSE [P EXCEPT !.events = Append(@, ev)]
Warn(P, w) == IF P.exited THEN P ELSE [P EXCEPT !.warns = @ \cup {w}]

\* logFatal: logging.Fatalf ends the process itself, the os.Exit(exitCode)
\* behind it is not reached
logFatal(P, exitCode) == Exit(Exit(Call(P, "logging.Fatalf"), 1), exitCode)

\* handleHWInfo and handleGPUInfo; e.infoErr: the client returns an error
handleHWInfo(P, e) ==
    LET P1 == Call(P, "GetXPUInfo")
    IN  IF e.infoErr THEN Exit(P1, exitLogError)
        ELSE Exit(Call(P1, "PrintXPUInfo"), exitNormal)

handleGPUInfo(P, e) ==
    LET P1 == Call(P, "GetSystemGPUInfo")
    IN  IF e.infoErr THEN Exit(P1, exitLogError)
        ELSE Exit(Call(P1, "PrintGPUSummary"), exitNormal)

NoCompatible == "No compatible GPUs found for the image."
Exiting == "Exiting: no compatible GPU(s) detected or error occurred"

\* handleCheckCompat that looks at the matched devices only
handleCheckCompatNoErr(P, imageName, e) ==
    IF imageName = <<>> THEN Exit(P, exitLogError)
    ELSE LET P1 == Call(P, "PreflightCheck")
             P2 == IF e.matched > 0 THEN P1 ELSE Warn(P1, NoCompatible)
         IN  IF e.matched = 0
             THEN Exit(Warn(P2, Exiting), exitExtractError)
             ELSE Exit(P2, exitNormal)

\* handleCheckCompat; e.preErr, e.matched, e.unmatched: what
\* client.PreflightCheck returns (the error, len(matched), len(unmatched))
handleCheckCompat(P, imageName, e) ==
    IF imageName = <<>> THEN Exit(P, exitLogError)
    ELSE LET P1 == Call(P, "PreflightCheck")
             P2 == IF e.matched > 0 THEN P1 ELSE Warn(P1, NoCompatible)
         IN  IF e.preErr \/ e.matched = 0
             THEN Exit(Warn(P2, Exiting), exitExtractError)
             ELSE Exit(P2, exitNormal)

\* the probe both configure functions end with; e.xpu: GetXPUInfo finds
\* an accelerator
probeXPU(P, e) ==
    LET P1 == Call(P, "GetXPUInfo")
    IN  IF P.exited THEN P
        ELSE IF ~e.xpu THEN [Warn(Call(P1, "SetEnabledGPU"),
                                  "No hardware accelerator found.")
                          EXCEPT !.gpu = FALSE]
        ELSE P1

\* configureBoolFlags
configureBoolFlags(P, noGPUFlag, e) ==
    LET P1 == [Call(Call(Call(P, "SetEnabledBaremetal"), "SetEnabledStub"),
                    "SetEnabledGPU") EXCEPT !.gpu = ~noGPUFlag]
    IN  IF P.exited THEN P
        ELSE IF noGPUFlag THEN P1 ELSE probeXPU(P1, e)

\* configureBaremetalAndGPU of the older main
configureBaremetalAndGPU(P, noGPUFlag, e) ==
    LET P1 == Call(P, "SetEnabledBaremetal")
    IN  IF P.exited THEN P
        ELSE IF noGPUFlag THEN [Call(P1, "SetEnabledGPU") EXCEPT !.gpu = FALSE]
        ELSE LET P2 == probeXPU(P1, e)
             IN  IF e.xpu THEN [Call(P2, "SetEnabledGPU") EXCEPT !.gpu = TRUE]
                 ELSE P2

\* runCreate; e.create: which of its three steps fails, or "ok"
runCreate(P, e) ==
    LET P1 == Call(P, "FilePathExists")
        P2 == Call(P1, "imgbuild.New")
        P3 == Call(P2, "CreateImage")
    IN  IF e.create = "path" THEN Exit(P1, exitCreateError)
        ELSE IF e.create = "builder" THEN Exit(P2, exitCreateError)
        ELSE IF e.create = "image" THEN Exit(P3, exitCreateError)
        ELSE P3

\* runExtract; e.extractErr: client.ExtractCache returns an error
runExtract(P, e) ==
    LET P1 == Call(P, "ExtractCache")
    IN  IF e.extractErr THEN Exit(P1, exitExtractError) ELSE P1

\* handleRunCommand; a: the values of the flags
handleRunCommand(P, a, e) ==
    IF validateFlagCombinations(a.createFlag, a.extractFlag, a.hwInfoFlag,
                                a.gpuInfoFlag, a.checkCompatFlag,
                                a.imageName, a.cacheDirName, a.stubFlag)
          # "nil"
    THEN Exit(P, exitLogError)
    ELSE LET P1 == configureBoolFlags(P, a.noGPUFlag, e)
         IN  IF a.hwInfoFlag THEN handleHWInfo(P1, e)
             ELSE IF a.gpuInfoFlag THEN handleGPUInfo(P1, e)
             ELSE IF a.checkCompatFlag
             THEN handleCheckCompat(P1, a.imageName, e)
             ELSE IF a.createFlag THEN runCreate(P1, e)
             ELSE IF a.extractFlag THEN runExtract(P1, e)
             ELSE Exit(P1, exitNormal)

\* handleRunCommand of the older main: the information handlers first,
\* then the probe, then the checks of the image name, then the actions
handleRunCommandOld(P, a, e) ==
    LET P1 == IF a.hwInfoFlag THEN handleHWInfo(P, e) ELSE P
        P2 == IF a.gpuInfoFlag THEN handleGPUInfo(P1, e) ELSE P1
        P3 == IF a.checkCompatFlag
              THEN handleCheckCompat(P2, a.imageName, e) ELSE P2
        P4 == configureBaremetalAndGPU(P3, a.noGPUFlag, e)
        P5 == IF (a.createFlag \/ a.extractFlag) /\ a.imageName = <<>>
              THEN Exit(P4, exitLogError) ELSE P4
        P6 == IF (a.createFlag \/ a.extractFlag \/ a.checkCompatFlag)
                   /\ validateImageName(a.imageName) # "nil"
              THEN Exit(P5, exitLogError) ELSE P5
        P7 == IF a.createFlag THEN runCreate(P6, e) ELSE P6
        P8 == IF a.extractFlag THEN runExtract(P7, e) ELSE P7
    IN  IF ~a.createFlag /\ ~a.extractFlag THEN Exit(P8, exitNormal) ELSE P8

\* the groups of addFlags' MarkFlagsMutuallyExclusive: cobra makes Execute
\* return an error, before Run, when two flags of a group are set
flagGroupsError(a) ==
    \/ a.createFlag /\ a.extractFlag
    \/ a.noGPUFlag /\ a.hwInfoFlag
    \/ a.noGPUFlag /\ a.gpuInfoFlag
    \/ a.noGPUFlag /\ a.checkCompatFlag

\* ------------------------------------------------------------------------
\* The command-line program: one run
\* ------------------------------------------------------------------------

\* cli.version: "new" is the main with validateFlagCombinations and
\* --stub, "old" the main with validateImageName. cli.a holds the flags,
\* cli.P the process, cli.e what the packages called returned in this run,
\* cli.cfgErr and cli.execErr whether config.Initialize and cmd.Execute
\* returned an error, cli.ran whether Run was reached.

\* the command lines: --stub exists in the new main only
Args(version) ==
    [createFlag : BOOLEAN, extractFlag : BOOLEAN, hwInfoFlag : BOOLEAN,
     gpuInfoFlag : BOOLEAN, checkCompatFlag : BOOLEAN,
     stubFlag : IF version = "new" THEN BOOLEAN ELSE {FALSE},
     noGPUFlag : BOOLEAN, imageName : ImageNames, cacheDirName : {"", "dir"}]

\* what the packages called can return in a run with the flags a (a
\* package that the flags leave uncalled returns nothing)
Envs(a) ==
    [logErr : BOOLEAN,
     xpu : IF a.noGPUFlag THEN {TRUE} ELSE BOOLEAN,
     infoErr : IF a.hwInfoFlag \/ a.gpuInfoFlag THEN BOOLEAN ELSE {FALSE},
     preErr : IF a.checkCompatFlag THEN BOOLEAN ELSE {FALSE},
     matched : IF a.checkCompatFlag THEN 0..MaxIDs ELSE {0},
     unmatched : IF a.checkCompatFlag THEN 0..MaxIDs ELSE {0},
     create : IF a.createFlag THEN {"ok", "path", "builder", "image"}
              ELSE {"ok"},
     extractErr : IF a.extractFlag THEN BOOLEAN ELSE {FALSE}]

CliFrame ==
    UNCHANGED <<variant, stubEnabled, libs, cacheFilePath, onceDone,
                deviceRegistry, files, now, initLog, lastCall, writer,
                observed, threads, vllm, signing>>

\* main up to cmd.Execute: config.Initialize
Initialize ==
    /\ cli.pc = "start"
    /\ \E cfgErr \in BOOLEAN :
         cli' = [cli EXCEPT
                   !.cfgErr = cfgErr,
                   !.P = IF cfgErr THEN logFatal(@, exitLogError) ELSE @,
                   !.pc = IF cfgErr THEN "exited" ELSE "execute"]
    /\ CliFrame

\* cmd.Execute and the rest of main: PersistentPreRun, cobra's check of
\* the flag groups, Run, and the return from main
Execute ==
    /\ cli.pc = "execute"
    /\ \E e \in Envs(cli.a) :
         LET pre == IF e.logErr THEN logFatal(cli.P, exitLogError)
                    ELSE cli.P
             groupErr == /\ ~pre.exited
                         /\ cli.version = "new"
                         /\ flagGroupsError(cli.a)
             run == IF pre.exited THEN pre
                    ELSE IF groupErr THEN logFatal(pre, exitLogError)
                    ELSE IF cli.version = "new"
                    THEN handleRunCommand(pre, cli.a, e)
                    ELSE handleRunCommandOld(pre, cli.a, e)
         IN  cli' = [cli EXCEPT !.P = Exit(run, exitNormal),
                                !.e = e,
                                !.execErr = groupErr,
                                !.ran = ~pre.exited /\ ~groupErr,
                                !.pc = "exited"]
    /\ CliFrame

InitCLI ==
    /\ variant = "mcv"
    /\ stubEnabled = FALSE
    /\ libs = {}
    /\ cacheFilePath = DefaultCacheFilePath
    /\ onceDone = FALSE
    /\ deviceRegistry = NilRegistry
    /\ now = 0
    /\ files = [p \in Paths |-> Absent]
    /\ initLog = {}
    /\ lastCall = NoCall
    /\ writer = IdleWriter
    /\ observed = NotObserved
    /\ threads = NoThreads
    /\ \E version \in {"new", "old"} : \E a \in Args(version) :
         cli = [pc |-> "start", version |-> version, a |-> a,
                P |-> [exited |-> FALSE, code |-> exitNormal,
                       events |-> <<>>, warns |-> {}, gpu |-> TRUE],
                e |-> [logErr |-> FALSE, xpu |-> TRUE, infoErr |-> FALSE,
                       preErr |-> FALSE, matched |-> 0, unmatched |-> 0,
                       create |-> "ok", extractErr |-> FALSE],
                cfgErr |-> FALSE, execErr |-> FALSE, ran |-> FALSE]
    /\ vllm = NoCache
    /\ signing = NoSigning

NextCLI ==
    \/ Initialize
    \/ Execute

SpecCLI == InitCLI /\ [][NextCLI]_vars

\* ------------------------------------------------------------------------
\* SignImage
\* ------------------------------------------------------------------------

\* A call in progress: whether it has returned and with which error
\* ("nil": none), and the calls it has made, in order.
NewCall == [returned |-> FALSE, err |-> "nil", events |-> <<>>]
Return(S, err) ==
    IF S.returned THEN S ELSE [S EXCEPT !.returned = TRUE, !.err = err]
Invoke(S, ev) ==
    IF S.returned THEN S ELSE [S EXCEPT !.events = Append(@, ev)]

KeyRequired == "cosign key path is required unless using Sigstore"

\* the head of SignImage: fetch the image, take its digest
resolveRef(S, e) ==
    LET S1 == Invoke(S, "FetchImg")
        S2 == IF e.fetchErr THEN Return(S1, "failed to fetch image") ELSE S1
        S3 == Invoke(S2, "Digest")
    IN  IF e.digestErr THEN Return(S3, "failed to get image digest") ELSE S3

\* the tail of SignImage: the check of the key, then sign.SignCmd
signResolved(S, cosignKey, useSigstore, e) ==
    LET S1 == IF ~useSigstore /\ cosignKey = "" THEN Return(S, KeyRequired)
              ELSE S
        S2 == Invoke(S1, "sign.SignCmd")
    IN  IF e.signErr THEN Return(S2, "failed to sign image")
        ELSE Return(S2, "nil")

\* SignImage: the SBOM file is written and attached to the image in the
\* registry, then the key is checked, then the image is signed.
\* e: which of the calls made return an error
SignImage(cosignKey, useSigstore, e) ==
    LET S0 == resolveRef(NewCall, e)
        S2 == Invoke(S0, "MkdirAll")
        S3 == IF e.mkdirErr THEN Return(S2, "mkdir") ELSE S2
        S4 == Invoke(S3, "WriteFile")
        S5 == IF e.writeErr THEN Return(S4, "write") ELSE S4
        S6 == Invoke(S5, "attach.SBOMCmd")
        S7 == IF e.sbomErr THEN Return(S6, "sbom") ELSE S6
        S8 == signResolved(S7, cosignKey, useSigstore, e)
    IN  IF S3.returned THEN S3 ELSE [S8 EXCEPT !.events = Append(@, "RemoveAll")]

\* SignImage of the version without an SBOM
SignImagePlain(cosignKey, useSigstore, e) ==
    signResolved(resolveRef(NewCall, e), cosignKey, useSigstore, e)

CallSignImage ==
    /\ signing.pc = "start"
    /\ \E e \in [fetchErr : BOOLEAN, digestErr : BOOLEAN, mkdirErr : BOOLEAN,
                 writeErr : BOOLEAN, sbomErr : BOOLEAN, signErr : BOOLEAN] :
         signing' = [signing EXCEPT
                       !.pc = "returned",
                       !.e = e,
                       !.S = IF signing.sbom
                             THEN SignImage(signing.cosignKey,
                                            signing.useSigstore, e)
                             ELSE SignImagePlain(signing.cosignKey,
                                                 signing.useSigstore, e)]
    /\ UNCHANGED <<variant, stubEnabled, libs, cacheFilePath, onceDone,
                   deviceRegistry, files, now, initLog, lastCall, writer,
                   observed, threads, cli, vllm>>

InitSigning ==
    /\ variant = "mcv"
    /\ stubEnabled = FALSE
    /\ libs = {}
    /\ cacheFilePath = DefaultCacheFilePath
    /\ onceDone = FALSE
    /\ deviceRegistry = NilRegistry
    /\ now = 0
    /\ files = [p \in Paths |-> Absent]
    /\ initLog = {}
    /\ lastCall = NoCall
    /\ writer = IdleWriter
    /\ observed = NotObserved
    /\ threads = NoThreads
    /\ cli = NoRun
    /\ vllm = NoCache
    /\ \E sbom \in BOOLEAN, cosignKey \in {"", "cosign.key"},
          useSigstore \in BOOLEAN :
         signing = [pc |-> "start", sbom |-> sbom, cosignKey |-> cosignKey,
                    useSigstore |-> useSigstore,
                    e |-> [fetchErr |-> FALSE, digestErr |-> FALSE,
                           mkdirErr |-> FALSE, writeErr |-> FALSE,
                           sbomErr |-> FALSE, signErr |-> FALSE],
                    S |-> NewCall]

NextSigning == CallSignImage

SpecSigning == InitSigning /\ [][NextSigning]_vars

\* ------------------------------------------------------------------------
\* DetectVLLMCache
\* ------------------------------------------------------------------------

\* The directory handed to DetectVLLMCache is described by
\*   top:   the names it holds ("vendor" and ".git" are
\*          directories that hold an fxgraph directory themselves),
\*   outer: the entries of torch_compile_cache in the order os.ReadDir
\*          lists them, each a file or a directory that has no triton_cache
\*          directory ("plain"), or one in which DetectTritonCache finds
\*          nothing ("undetected") or a cache of some kernel entries that
\*          share a compatibility tuple ("detected"),
\*   deep:  whether the directories of outer hold an inductor_cache
\*          directory,
\*   io:    whether walking the directory ("walk") or reading
\*          torch_compile_cache ("readdir") fails; a directory that cannot
\*          be read shows no entries.
\* Its own path contains none of the names looked for.
TorchCompileCache == "torch_compile_cache"
HashNames == <<"0a", "1b", "2c", "3d", "4e">>

Trees ==
    LET OuterEntries ==
            [kind : {"file", "plain", "undetected"}, entries : {0},
             tuple : {""}]
                \cup [kind : {"detected"}, entries : 1..MaxKernels,
                      tuple : {"cuda-80", "rocm-gfx90a"}]
    IN
    {t \in [top : SUBSET {TorchCompileCache, "fxgraph",
                          "vllm_compile_cache.py", "vendor", ".git"},
            deep : BOOLEAN,
            io : {"ok", "walk", "readdir"},
            outer : UNION {[1..n -> OuterEntries] : n \in 0..MaxOuter}] :
        /\ (t.outer # <<>> \/ t.io = "readdir") => TorchCompileCache \in t.top
        /\ t.io # "ok" => t.outer = <<>>
        /\ t.deep => \E i \in 1..Len(t.outer) : t.outer[i].kind # "file"}

\* what filepath.WalkDir meets under the directory: [path, dir]
Entries(t) ==
    {[path |-> <<n>>, dir |-> n # "vllm_compile_cache.py"] : n \in t.top}
    \cup {[path |-> <<n, "fxgraph">>, dir |-> TRUE] :
              n \in t.top \cap {"vendor", ".git"}}
    \cup {[path |-> <<TorchCompileCache, HashNames[i]>>,
           dir |-> t.outer[i].kind # "file"] : i \in 1..Len(t.outer)}
    \cup {[path |-> <<TorchCompileCache, HashNames[i], "triton_cache">>,
           dir |-> TRUE] :
              i \in {j \in 1..Len(t.outer) :
                        t.outer[j].kind \in {"undetected", "detected"}}}
    \cup {[path |-> <<TorchCompileCache, HashNames[i], "inductor_cache">>,
           dir |-> TRUE] :
              i \in {j \in 1..Len(t.outer) :
                        t.deep /\ t.outer[j].kind # "file"}}

\* d.IsDir() && (strings.Contains(path, "vendor") ||
\*               strings.HasPrefix(d.Name(), "."))
SkipsDir(e) ==
    /\ e.dir
    /\ \/ \E i \in 1..Len(e.path) : e.path[i] = "vendor"
       \/ e.path[Len(e.path)] = ".git"

\* the name ends in vllm_compile_cache.py or the path contains
\* inductor_cache or fxgraph
IsSentinel(e) ==
    \/ e.path[Len(e.path)] = "vllm_compile_cache.py"
    \/ \E i \in 1..Len(e.path) : e.path[i] \in {"inductor_cache", "fxgraph"}

\* the walk reaches an entry when no directory above it was skipped
found(t) ==
    \E e \in Entries(t) :
        /\ \A k \in 1..(Len(e.path) - 1) :
              \A u \in Entries(t) :
                  u.path = SubSeq(e.path, 1, k) =>
                      (~SkipsDir(u) /\ ~IsSentinel(u))
        /\ ~SkipsDir(e)
        /\ IsSentinel(e)

\* tc.Metadata() of the Triton cache detected in an outer directory
TritonEntries(o) == [k \in 1..o.entries |-> [Hash |-> k, tuple |-> o.tuple]]

\* the result nil; tritonCache holds a nil pointer
NilVLLMCache ==
    [nil |-> TRUE, tritonCache |-> [nil |-> TRUE, allMetadata |-> <<>>],
     count |-> 0, allMetadata |-> <<>>]

\* the loop over the entries of torch_compile_cache, from entry i on
RECURSIVE scanEntries(_, _, _)
scanEntries(outer, i, v) ==
    IF i > Len(outer) THEN v
    ELSE IF outer[i].kind = "file" THEN scanEntries(outer, i + 1, v)
    ELSE LET counted == [v EXCEPT !.count = @ + 1]
         IN  IF outer[i].kind # "detected"
             THEN scanEntries(outer, i + 1, counted)
             ELSE scanEntries(outer, i + 1,
                    [counted EXCEPT
                       !.tritonCache =
                           [nil |-> FALSE,
                            allMetadata |-> TritonEntries(outer[i])],
                       !.allMetadata =
                           Append(@, [VllmHash |-> HashNames[i],
                                      TritonCacheEntries |->
                                          TritonEntries(outer[i])])])

DetectVLLMCache(t) ==
    IF t.io = "walk" THEN NilVLLMCache
    ELSE IF ~found(t) THEN NilVLLMCache
    ELSE IF TorchCompileCache \notin t.top THEN NilVLLMCache
    ELSE IF t.io = "readdir" THEN [NilVLLMCache EXCEPT !.nil = FALSE]
    ELSE scanEntries(t.outer, 1, [NilVLLMCache EXCEPT !.nil = FALSE])

EntryCount(v) == v.count

\* strconv.Itoa of a number that is not negative, as its decimal digits
RECURSIVE Itoa(_)
Itoa(n) ==
    LET digits == <<"0", "1", "2", "3", "4", "5", "6", "7", "8", "9">>
    IN  IF n < 10 THEN <<digits[n + 1]>>
        ELSE Append(Itoa(n \div 10), digits[(n % 10) + 1])

\* the groups of a compatibility summary: for every tuple of the entries,
\* the number of entries that have it
BuildTritonSummary(allMetadata) ==
    [tu \in {allMetadata[k].tuple : k \in 1..Len(allMetadata)} |->
        Cardinality({k \in 1..Len(allMetadata) : allMetadata[k].tuple = tu})]

\* Summary returns the JSON text of the summary, "null" for no summary and
\* "" when building it fails; the JSON text is kept as the groups it encodes
NullSummary == [text |-> "null", groups |-> <<>>]
FailedSummary == [text |-> "", groups |-> <<>>]
SummaryOfAllGroups(v, buildErr) ==
    IF ~v.tritonCache.nil /\ Len(v.tritonCache.allMetadata) > 0
    THEN IF buildErr THEN FailedSummary
         ELSE [text |-> "groups",
               groups |->
                   [tu \in {v.allMetadata[g].TritonCacheEntries[1].tuple :
                               g \in 1..Len(v.allMetadata)} |->
                       Cardinality(
                           {<<g, k>> \in (1..Len(v.allMetadata)) \X (1..MaxKernels + 1) :
                               /\ k <= Len(v.allMetadata[g].TritonCacheEntries)
                               /\ v.allMetadata[g].TritonCacheEntries[k].tuple = tu})]]
    ELSE NullSummary

Summary(v, buildErr) ==
    IF ~v.tritonCache.nil /\ Len(v.tritonCache.allMetadata) > 0
    THEN IF buildErr THEN FailedSummary
         ELSE [text |-> "groups",
               groups |-> BuildTritonSummary(v.tritonCache.allMetadata)]
    ELSE NullSummary

\* the entry-count and summary labels; the cache-size label is the size of
\* the directory on disk, which nothing here depends on
Labels(v, buildErr) ==
    [entryCount |-> Itoa(EntryCount(v)), summary |-> Summary(v, buildErr)]

VllmFrame ==
    UNCHANGED <<variant, stubEnabled, libs, cacheFilePath, onceDone,
                deviceRegistry, files, now, initLog, lastCall, writer,
                observed, threads, cli, signing>>

CallDetectVLLMCache ==
    /\ vllm.pc = "dir"
    /\ vllm' = [vllm EXCEPT !.pc = "detected",
                            !.cache = DetectVLLMCache(vllm.dir)]
    /\ VllmFrame

CallLabels ==
    /\ vllm.pc = "detected"
    /\ ~vllm.cache.nil
    /\ \E buildErr \in BOOLEAN :
          vllm' = [vllm EXCEPT !.pc = "labelled",
                              !.labels = Labels(vllm.cache, buildErr)]
    /\ VllmFrame

InitDetect ==
    /\ variant = "mcv"
    /\ stubEnabled = FALSE
    /\ libs = {}
    /\ cacheFilePath = DefaultCacheFilePath
    /\ onceDone = FALSE
    /\ deviceRegistry = NilRegistry
    /\ files = [p \in Paths |-> Absent]
    /\ now = 0
    /\ initLog = {}
    /\ lastCall = NoCall
    /\ writer = IdleWriter
    /\ observed = NotObserved
    /\ threads = NoThreads
    /\ cli = NoRun
    /\ signing = NoSigning
    /\ \E t \in Trees :
          vllm = [pc |-> "dir", dir |-> t, cache |-> NilVLLMCache,
                  labels |-> [entryCount |-> <<>>, summary |-> NullSummary]]

NextDetect == CallDetectVLLMCache \/ CallLabels

SpecDetect == InitDetect /\ [][NextDetect]_vars

\* ------------------------------------------------------------------------
\* ExtractVLLMCacheDirectory
\* ------------------------------------------------------------------------

\* A string is the sequence of the pieces it is made of. No piece begins
\* with another one, so that one string begins with another exactly when
\* its pieces begin with the other's pieces.
MCVVLLMCacheDir == <<"io.vllm.cache">>
ManifestPrefix == <<"io.vllm.manifest", "/">>
ManifestJSONName == <<"io.vllm.manifest", "/", "manifest.json">>
GroupIndexNames == {"__grp__1.json", "__grp__2.json"}

HasPrefix(str, prefix) ==
    /\ Len(str) >= Len(prefix)
    /\ SubSeq(str, 1, Len(prefix)) = prefix

TrimPrefix(str, prefix) ==
    IF HasPrefix(str, prefix) THEN SubSeq(str, Len(prefix) + 1, Len(str))
    ELSE str

\* the elements of a path: what stands between its separators
RECURSIVE Split(_)
Split(str) ==
    IF str = <<>> THEN << <<>> >>
    ELSE LET rest == Split(Tail(str))
         IN  IF Head(str) = "/" THEN << <<>> >> \o rest
             ELSE << <<Head(str)>> \o rest[1] >> \o Tail(rest)

\* filepath.Clean on the elements of a path: empty elements go, ".." takes
\* the element before it away, at the root it goes itself, and at the
\* start of a relative path it stays
RECURSIVE Clean(_, _, _)
Clean(rooted, elems, out) ==
    IF elems = <<>> THEN out
    ELSE IF Head(elems) = <<>> THEN Clean(rooted, Tail(elems), out)
    ELSE IF Head(elems) = <<"..">>
         THEN IF out # <<>> /\ out[Len(out)] # <<"..">>
              THEN Clean(rooted, Tail(elems), SubSeq(out, 1, Len(out) - 1))
              ELSE IF rooted THEN Clean(rooted, Tail(elems), out)
              ELSE Clean(rooted, Tail(elems), Append(out, Head(elems)))
    ELSE Clean(rooted, Tail(elems), Append(out, Head(elems)))

\* filepath.Join(dir, str) for an absolute directory given by its elements
Join(dir, str) == Clean(TRUE, dir \o Split(str), <<>>)

\* filepath.Dir of a string, as the elements of the result
Dir(str) ==
    LET last == IF \E i \in 1..Len(str) : str[i] = "/"
                THEN CHOOSE i \in 1..Len(str) :
                         /\ str[i] = "/"
                         /\ \A j \in (i + 1)..Len(str) : str[j] # "/"
                ELSE 0
    IN  Clean(str # <<>> /\ str[1] = "/", Split(SubSeq(str, 1, last)), <<>>)

\* filepath.Dir of a clean absolute path
Parent(path) == IF path = <<>> THEN <<>> ELSE SubSeq(path, 1, Len(path) - 1)

\* the configured extraction roots
ExtractCacheDir == << <<"out">>, <<"cache">> >>
ExtractManifestDir == << <<"out">>, <<"manifest">> >>

\* the disk: the directories and files there are, by their paths
MkdirAll(disk, path) ==
    disk \cup {[path |-> SubSeq(path, 1, k), kind |-> "dir"] :
                  k \in 0..Len(path)}
writeFile(disk, path) == disk \cup {[path |-> path, kind |-> "file"]}
DiskBefore ==
    MkdirAll(MkdirAll({}, Parent(ExtractCacheDir)), Parent(ExtractManifestDir))

\* tar entries
TarEntries ==
    LET Reg(name) == [name |-> name, type |-> "reg"]
        Directory(name) == [name |-> name, type |-> "dir"]
        Symlink(name) == [name |-> name, type |-> "symlink"]
    IN
    {Reg(<<"io.vllm.cache", "/", "a", "/", "__grp__1.json">>),
     Reg(<<"io.vllm.cache", "/", "__grp__2.json">>),
     Directory(<<"io.vllm.cache", "/", "a">>),
     Directory(<<"io.vllm.cache">>),
     Symlink(<<"io.vllm.cache", "/", "b", "/", "X">>),
     Reg(<<"io.vllm.cache", "X", "/", "a">>),
     Reg(<<"io.vllm.cache", "/", "..", "/", "X">>),
     Reg(<<"io.vllm.cache", "..", "/", "X">>),
     Reg(<<"io.vllm.manifest", "/", "manifest.json">>),
     Reg(<<"io.vllm.manifest", "/", "manifest.json", ".bak">>),
     Reg(<<"io.vllm.manifest", "/", "a">>),
     Reg(<<"io.triton.cache", "/", "a">>)}

\* what the system calls answer: one of them fails at one tar entry (the
\* read of its header, the creation of its parent directory, or its own
\* creation), or the walk after the entries fails, or none fails and
\* RestoreFullPathsInGroupJSON fails on the files of bad
NoFailure == [op |-> "none", at |-> 0]
ExtractEnvs(n) ==
    [fail : {NoFailure}, bad : SUBSET GroupIndexNames]
        \cup [fail : [op : {"gzip", "roots", "walk"}, at : {0}]
                        \cup [op : {"read"}, at : 1..(n + 1)]
                        \cup [op : {"mkdir", "write"}, at : 1..n],
              bad : {{}}]

NewExtraction ==
    [returned |-> FALSE, err |-> "nil", disk |-> DiskBefore,
     extractedDirs |-> <<>>, events |-> <<>>]

Fail(X, err) ==
    IF X.returned THEN X
    ELSE [X EXCEPT !.returned = TRUE, !.err = err, !.extractedDirs = <<>>]

Event(X, op, path) ==
    IF X.returned THEN X
    ELSE [X EXCEPT !.events = Append(@, [op |-> op, path |-> path])]

\* the body of the loop for the entry h, the i-th of the stream
extractEntry(X, h, i, e) ==
    IF X.returned THEN X
    ELSE IF e.fail = [op |-> "read", at |-> i] THEN Fail(X, "read")
    ELSE IF ~HasPrefix(h.name, MCVVLLMCacheDir)
            /\ ~HasPrefix(h.name, ManifestJSONName) THEN X
    ELSE IF HasPrefix(h.name, MCVVLLMCacheDir)
            /\ TrimPrefix(h.name, MCVVLLMCacheDir) = <<>> THEN X
    ELSE
      LET filePath ==
              IF HasPrefix(h.name, MCVVLLMCacheDir)
              THEN Join(ExtractCacheDir, TrimPrefix(h.name, MCVVLLMCacheDir))
              ELSE Join(ExtractManifestDir, TrimPrefix(h.name, ManifestPrefix))
          topDir == Clean(TRUE,
                          ExtractCacheDir
                              \o Dir(TrimPrefix(h.name, MCVVLLMCacheDir)),
                          <<>>)
          X1 == IF HasPrefix(h.name, MCVVLLMCacheDir)
                   /\ ~\E k \in 1..Len(X.extractedDirs) :
                          X.extractedDirs[k] = topDir
                THEN [X EXCEPT !.extractedDirs = Append(@, topDir)]
                ELSE X
          X2 == IF e.fail = [op |-> "mkdir", at |-> i] THEN Fail(X1, "mkdir")
                ELSE Event([X1 EXCEPT !.disk = MkdirAll(@, Parent(filePath))],
                           "MkdirAll", Parent(filePath))
      IN  IF X2.returned THEN X2
          ELSE IF h.type = "symlink" THEN X2
          ELSE IF e.fail = [op |-> "write", at |-> i] THEN Fail(X2, "write")
          ELSE IF h.type = "dir"
               THEN Event([X2 EXCEPT !.disk = MkdirAll(@, filePath)],
                          "MkdirAll", filePath)
               ELSE Event([X2 EXCEPT !.disk = writeFile(@, filePath)],
                          "writeFile", filePath)

RECURSIVE extractEntries(_, _, _, _)
extractEntries(X, tar, i, e) ==
    IF i > Len(tar)
    THEN IF e.fail = [op |-> "read", at |-> i] THEN Fail(X, "read") ELSE X
    ELSE extractEntries(extractEntry(X, tar[i], i, e), tar, i + 1, e)

\* the group index files the walk of the cache directory can meet, in the
\* order of the walk
WalkOrder ==
    << ExtractCacheDir \o << <<"__grp__2.json">> >>,
       ExtractCacheDir \o << <<"a">>, <<"__grp__1.json">> >> >>

\* the callback of the walk on the k-th path of WalkOrder and after; the
\* path is a file there whose name begins with __grp__ and ends in .json
RECURSIVE restore(_, _, _)
restore(X, k, e) ==
    IF X.returned \/ k > Len(WalkOrder) THEN X
    ELSE IF ~(/\ [path |-> WalkOrder[k], kind |-> "file"] \in X.disk
              /\ WalkOrder[k][Len(WalkOrder[k])][1] \in GroupIndexNames)
         THEN restore(X, k + 1, e)
    ELSE LET called == Event(X, "RestoreFullPathsInGroupJSON", WalkOrder[k])
         IN  IF WalkOrder[k][Len(WalkOrder[k])][1] \in e.bad
             THEN restore(Event(called, "Warnf", WalkOrder[k]), k + 1, e)
             ELSE restore(called, k + 1, e)

ExtractVLLMCacheDirectoryStrict(tar, e) ==
    IF e.fail.op = "gzip" THEN Fail(NewExtraction, "gzip")
    ELSE IF e.fail.op = "roots" THEN Fail(NewExtraction, "roots")
    ELSE
      LET X0 == [NewExtraction EXCEPT
                   !.disk = MkdirAll(MkdirAll(@, ExtractCacheDir),
                                     ExtractManifestDir)]
          X1 == extractEntries(X0, tar, 1, e)
          X2 == IF e.fail.op = "walk" THEN Fail(X1, "walk")
                ELSE restore(X1, 1, e)
          X3 == IF \E k \in 1..Len(X2.events) : X2.events[k].op = "Warnf"
                THEN Fail(X2, "restore")
                ELSE X2
      IN  IF X3.returned THEN X3 ELSE [X3 EXCEPT !.returned = TRUE]

ExtractVLLMCacheDirectory(tar, e) ==
    IF e.fail.op = "gzip" THEN Fail(NewExtraction, "gzip")
    ELSE IF e.fail.op = "roots" THEN Fail(NewExtraction, "roots")
    ELSE
      LET X0 == [NewExtraction EXCEPT
                   !.disk = MkdirAll(MkdirAll(@, ExtractCacheDir),
                                     ExtractManifestDir)]
          X1 == extractEntries(X0, tar, 1, e)
          X2 == IF e.fail.op = "walk" THEN Fail(X1, "walk")
                ELSE restore(X1, 1, e)
      IN  IF X2.returned THEN X2 ELSE [X2 EXCEPT !.returned = TRUE]

CallExtractVLLMCacheDirectory ==
    /\ vllm.pc = "tar"
    /\ \E e \in ExtractEnvs(Len(vllm.tar)) :
          vllm' = [vllm EXCEPT !.pc = "extracted", !.e = e,
                              !.X = ExtractVLLMCacheDirectory(vllm.tar, e)]
    /\ VllmFrame

InitExtract ==
    /\ variant = "mcv"
    /\ stubEnabled = FALSE
    /\ libs = {}
    /\ cacheFilePath = DefaultCacheFilePath
    /\ onceDone = FALSE
    /\ deviceRegistry = NilRegistry
    /\ files = [p \in Paths |-> Absent]
    /\ now = 0
    /\ initLog = {}
    /\ lastCall = NoCall
    /\ writer = IdleWriter
    /\ observed = NotObserved
    /\ threads = NoThreads
    /\ cli = NoRun
    /\ signing = NoSigning
    /\ \E tar \in UNION {[1..n -> TarEntries] : n \in 0..MaxEntries} :
          vllm = [pc |-> "tar", tar |-> tar,
                  e |-> [fail |-> NoFailure, bad |-> {}],
                  X |-> NewExtraction]

NextExtract == CallExtractVLLMCacheDirectory

SpecExtract == InitExtract /\ [][NextExtract]_vars

\* ------------------------------------------------------------------------
\* Properties of Startup and the device cache
\* ------------------------------------------------------------------------

\* content c is a snapshot not older than the TTL at time t with an entry for a
FreshEntry(c, a, t) ==
    /\ c.kind = "json"
    /\ t - c.Timestamp <= CacheTTL
    /\ a \in DOMAIN c.Devices

\* the static configuration file loads
StaticLoaded == variant = "static" /\ files[configFilePath].kind = "json"

\* the last call was Startup(a) with a fresh cache holding an entry for a
\* whose device type has a registered startup function
FreshRegistered ==
    /\ lastCall.op = "Startup"
    /\ FreshEntry(lastCall.cacheBefore, lastCall.a, now)
    /\ Has(deviceRegistry.Registry, lastCall.a,
           lastCall.cacheBefore.Devices[lastCall.a].DeviceType)

\* Startup returned the device of exactly the cached entry's startup
\* function, started nothing else and wrote no file
ServedFromCache ==
    LET a == lastCall.a
        d == lastCall.cacheBefore.Devices[a].DeviceType
        device == deviceStartup(a, d, deviceRegistry.Registry[a][d])
    IN  /\ lastCall.via = "cache"
        /\ lastCall.dev = device
        /\ lastCall.started = <<device>>
        /\ lastCall.writes = {}

\* C1 as stated: whenever the cache is fresh, has an entry for a and the
\* entry's device type is registered, Startup(a) returns that startup
\* function's device without probing or rewriting the cache.
C1_Original == FreshRegistered => ServedFromCache

\* C1 amended: the same, provided no static configuration file loads (a
\* static configuration that loads takes priority over the cache).
C1_CacheHit == (FreshRegistered /\ ~StaticLoaded) => ServedFromCache

C1_Witness ==
    /\ FreshRegistered
    /\ ~StaticLoaded
    /\ lastCall.via = "cache"
    /\ now - lastCall.cacheBefore.Timestamp = CacheTTL

\* C2: when the static configuration file loads, Startup(a) neither reads
\* nor writes the device cache nor probes; its result is the device of the
\* static entry's registered startup function, or nil.
C2_StaticAuthoritative ==
    (lastCall.op = "Startup" /\ StaticLoaded) =>
        LET a == lastCall.a
            cfg == files[configFilePath].Devices
            reg == deviceRegistry.Registry
        IN  /\ lastCall.reads = {configFilePath}
            /\ lastCall.writes = {}
            /\ lastCall.via = "static"
            /\ lastCall.saved = "n/a"
            /\ files[cacheFilePath] = lastCall.cacheBefore
            /\ lastCall.dev =
                 IF a \in DOMAIN cfg /\ Has(reg, a, cfg[a].DeviceType)
                 THEN deviceStartup(a, cfg[a].DeviceType,
                                    reg[a][cfg[a].DeviceType])
                 ELSE NoDevice

\* the static config decides although a fresh cache names another backend
C2_Witness ==
    /\ lastCall.op = "Startup"
    /\ StaticLoaded
    /\ lastCall.dev # NoDevice
    /\ FreshEntry(files[cacheFilePath], lastCall.a, now)
    /\ files[cacheFilePath].Devices[lastCall.a].DeviceType # lastCall.dev.DevType

\* the cache file holds a snapshot with an entry for a of hwType a that is
\* at most age seconds old
CacheHolds(c, a, age) ==
    /\ c.kind = "json"
    /\ a \in DOMAIN c.Devices
    /\ c.Devices[a].HwType = a
    /\ now - c.Timestamp <= age

StartupSucceeded == lastCall.op = "Startup" /\ lastCall.dev # NoDevice

C4_LoaderFresh ==
    /\ \A p \in {DefaultCacheFilePath, StubbedCacheFile} :
         LET c == files[p]
             ok == c.kind = "json" /\ now - c.Timestamp <= CacheTTL
             r1 == loadAndUpdateCache(c, now)
             r2 == loadCache(c, now)
         IN  /\ (r1.err = "none") <=> ok
             /\ (r2.err = "none") <=> ok
             /\ r1.cache = (IF ok THEN c ELSE Absent)
             /\ r2.cache = (IF ok THEN c ELSE Absent)
    /\ lastCall.via = "cache" =>
         /\ lastCall.cacheBefore.kind = "json"
         /\ now - lastCall.cacheBefore.Timestamp <= CacheTTL

\* an expired snapshot with a registered entry was passed over
C4_Witness ==
    /\ lastCall.op = "Startup"
    /\ lastCall.miss = "expired"
    /\ lastCall.via = "probe"
    /\ lastCall.a \in DOMAIN lastCall.cacheBefore.Devices
    /\ lastCall.cacheBefore.Devices[lastCall.a].DeviceType = lastCall.dev.DevType

\* the loader reported a miss and a backend is registered for a
MissWithBackend ==
    /\ lastCall.op = "Startup"
    /\ lastCall.miss \in {"not-present", "expired", "corrupt"}
    /\ lastCall.a \in DOMAIN deviceRegistry.Registry
    /\ DOMAIN deviceRegistry.Registry[lastCall.a] # {}

Reprobed ==
    /\ lastCall.via = "probe"
    /\ Len(lastCall.started) = 1
    /\ Has(deviceRegistry.Registry, lastCall.a, lastCall.dev.DevType)

Overwritten ==
    /\ files[cacheFilePath].kind = "json"
    /\ files[cacheFilePath].Timestamp = now
    /\ cacheFilePath \in lastCall.writes

NoBackendFor(a) ==
    a \notin DOMAIN deviceRegistry.Registry
        \/ DOMAIN deviceRegistry.Registry[a] = {}

\* the last call was Startup(a) with a fresh cache whose entry for a names
\* a device type without a registered startup function
FreshUnregistered ==
    /\ lastCall.op = "Startup"
    /\ FreshEntry(lastCall.cacheBefore, lastCall.a, now)
    /\ ~Has(deviceRegistry.Registry, lastCall.a,
            lastCall.cacheBefore.Devices[lastCall.a].DeviceType)

\* Startup returned the device of a backend registered for a, from the probe
ProbedRegistered ==
    /\ lastCall.dev # NoDevice
    /\ lastCall.via = "probe"
    /\ lastCall.started = <<lastCall.dev>>
    /\ Has(deviceRegistry.Registry, lastCall.a, lastCall.dev.DevType)
    /\ lastCall.dev.DevType
          # lastCall.cacheBefore.Devices[lastCall.a].DeviceType

\* the cache file holds the device Startup returned, stamped now
CacheHoldsProbed ==
    /\ cacheFilePath \in lastCall.writes
    /\ CacheHolds(files[cacheFilePath], lastCall.a, 0)
    /\ files[cacheFilePath].Devices[lastCall.a] = CachedDevice(lastCall.dev)

C7_StubPathOnly ==
    (variant = "mcv" /\ stubEnabled /\ lastCall.op = "Startup") =>
        lastCall.reads \cup lastCall.writes \subseteq {StubbedCacheFile}

\* C8: SummarizeGPUs and updateCache shut down every device they start.
C8_ShutdownPaired ==
    lastCall.op \in {"SummarizeGPUs", "updateCache"} =>
        lastCall.shut = lastCall.started

\* C10: after registerDevices the ROCM backend is registered only if the
\* AMD backend did not register during that initialization.
C10_RocmOnlyWithoutAmd ==
    (onceDone /\ Has(deviceRegistry.Registry, GPU, ROCM)) => AMD \notin initLog

Resolved == lastCall.op \in {"Startup", "SummarizeGPUs"}

OnlyMock(r) == \A a \in DOMAIN r : \A d \in DOMAIN r[a] : d = MOCK

C14_NoBackendNonFatal ==
    (Resolved /\ NoBackendFor(lastCall.a)) =>
        /\ lastCall.dev = NoDevice
        /\ lastCall.started = <<>>
        /\ lastCall.writes = {}
        /\ (lastCall.op = "SummarizeGPUs" => lastCall.err)

\* SummarizeGPUs on a host where no library loads
C14_Witness ==
    /\ lastCall.op = "SummarizeGPUs"
    /\ libs = {}
    /\ NoBackendFor(GPU)
    /\ lastCall.dev = NoDevice
    /\ lastCall.err

\* ------------------------------------------------------------------------
\* Properties of the registry
\* ------------------------------------------------------------------------

AddedToGPU(d) ==
    /\ lastCall.op = "addDeviceInterface"
    /\ lastCall.a = GPU
    /\ lastCall.d = d

OnlyAmdOfTheTwo ==
    /\ Has(deviceRegistry.Registry, GPU, AMD)
    /\ ~Has(deviceRegistry.Registry, GPU, ROCM)

\* C9: after addDeviceInterface(AMD, gpu) the gpu registry has the AMD
\* entry and no ROCM entry; offering ROCM while AMD is registered is
\* refused and leaves the same.
C9_AmdReplacesRocm ==
    /\ AddedToGPU(AMD) => (OnlyAmdOfTheTwo /\ ~lastCall.err)
    /\ (AddedToGPU(ROCM) /\ Has(lastCall.before, GPU, AMD)) =>
          (OnlyAmdOfTheTwo /\ lastCall.err
             /\ deviceRegistry.Registry = lastCall.before)

\* AMD was offered while ROCM was registered for gpu
C9_Witness ==
    /\ AddedToGPU(AMD)
    /\ Has(lastCall.before, GPU, ROCM)
    /\ OnlyAmdOfTheTwo

\* C11: registering the NVML backend for gpu removes no entry: every
\* (hwType, backend) pair registered before the call is registered after it.
C11_NvmlIndependent ==
    AddedToGPU(NVML) =>
        \A a \in HwTypes, d \in DeviceType :
            Has(lastCall.before, a, d) => Has(deviceRegistry.Registry, a, d)

RegisteredAgain ==
    /\ lastCall.op = "MustRegister"
    /\ Has(lastCall.before, lastCall.a, lastCall.d)

\* C12: MustRegister for a pair that is already registered leaves the
\* whole registry as it was, the startup function of the pair included.
C12_DuplicateNoOp ==
    RegisteredAgain => deviceRegistry.Registry = lastCall.before

\* the duplicate call offered another startup function than the stored one
C12_Witness ==
    /\ RegisteredAgain
    /\ lastCall.before[lastCall.a][lastCall.d] # lastCall.fn
    /\ deviceRegistry.Registry[lastCall.a][lastCall.d] # lastCall.fn

Returned == {t \in Threads : threads.pc[t] = "done"}

\* C15: however the concurrent GetRegistry calls interleave,
\* registerDevices never runs a second time, it has run exactly once when a
\* call returns, and every call returns the one registry instance.
C15_InitializedOnce ==
    /\ threads.runs <= 1
    /\ \A t \in Returned :
          /\ threads.runs = 1
          /\ threads.got[t] = deviceRegistry.ptr
          /\ threads.got[t] # NilRegistry.ptr
    /\ \A t, u \in Returned : threads.got[t] = threads.got[u]

\* all calls have returned, and some of them had raced for the once
C15_Witness ==
    /\ Returned = Threads
    /\ threads.waited # {}
    /\ threads.runs = 1

\* C27: in every state of the registry each hwType has at most one
\* registered startup function, so the probe of Startup, which ranges over
\* the hwType's map, has one backend to choose.
C27_OneBackendPerHwType ==
    \A a \in DOMAIN deviceRegistry.Registry :
        Cardinality(DOMAIN deviceRegistry.Registry[a]) <= 1

\* a second backend was registered for a hwType that had one
C27_Witness ==
    /\ lastCall.op = "MustRegister"
    /\ lastCall.a \in DOMAIN lastCall.before
    /\ DOMAIN lastCall.before[lastCall.a] \ {lastCall.d} # {}
    /\ DOMAIN deviceRegistry.Registry[lastCall.a] = {lastCall.d}

\* C28: a GetRegistry call made while the registry installed by
\* SetRegistry is the current one returns that registry and leaves it
\* installed.
C28_SetRegistrySticks ==
    [][(deviceRegistry.ptr = CallerRegistry.ptr
          /\ lastCall'.op = "GetRegistry") =>
       (lastCall'.ret = CallerRegistry.ptr
          /\ deviceRegistry'.ptr = CallerRegistry.ptr)]_vars

\* ------------------------------------------------------------------------
\* Properties of the command-line program
\* ------------------------------------------------------------------------

ActionFlags == {"createFlag", "extractFlag", "hwInfoFlag", "gpuInfoFlag",
                "checkCompatFlag"}
ActionsSet(a) == {f \in ActionFlags : a[f]}

\* the four rules of the command line
ExactlyOneAction(a) == Cardinality(ActionsSet(a)) = 1
ImageGiven(a) ==
    (ActionsSet(a) \cap {"createFlag", "extractFlag", "checkCompatFlag"} # {})
        => a.imageName # <<>>
DirGiven(a) == a.createFlag => a.cacheDirName # ""
StubWithInfo(a) == a.stubFlag => (a.hwInfoFlag \/ a.gpuInfoFlag)
FlagRules(a) ==
    ExactlyOneAction(a) /\ ImageGiven(a) /\ DirGiven(a) /\ StubWithInfo(a)

Accepted(a) ==
    validateFlagCombinations(a.createFlag, a.extractFlag, a.hwInfoFlag,
                             a.gpuInfoFlag, a.checkCompatFlag, a.imageName,
                             a.cacheDirName, a.stubFlag) = "nil"

\* C16: validateFlagCombinations returns no error exactly when the flags
\* name one action, --image is given for create, extract and check-compat,
\* --dir is given for create, and --stub comes only with hw-info or
\* gpu-info.
C16_ValidateAccepts ==
    (cli.pc # "none") => (Accepted(cli.a) <=> FlagRules(cli.a))

\* Run validated --create with an image and a directory and went on to build
C16_Witness ==
    /\ cli.version = "new" /\ cli.ran
    /\ cli.a.createFlag /\ Accepted(cli.a) /\ FlagRules(cli.a)
    /\ cli.P.events # <<>>

\* the calls a process made, the fatal log entry aside
Effects(P) == {P.events[i] : i \in 1..Len(P.events)} \ {"logging.Fatalf"}

\* the run got past config.Initialize and the configuration of logging
Started == cli.pc = "exited" /\ ~cli.cfgErr /\ ~cli.e.logErr

\* C17: a run of the new main whose flags break one of the four rules
\* exits with code 3 and has probed, configured and handled nothing.
C17_InvalidFlagsExit3 ==
    (Started /\ cli.version = "new" /\ ~FlagRules(cli.a)) =>
        /\ cli.P.code = exitLogError
        /\ Effects(cli.P) = {}

\* one of create, extract and check-compat alone, with what it requires
ImageAction(a) ==
    /\ ExactlyOneAction(a)
    /\ ActionsSet(a) \subseteq {"createFlag", "extractFlag", "checkCompatFlag"}
    /\ DirGiven(a) /\ ~a.stubFlag /\ ~a.noGPUFlag

ActionCalls == {"FilePathExists", "imgbuild.New", "CreateImage",
                "ExtractCache", "PreflightCheck"}

\* C18: a run of create, extract or check-compat whose image name does not
\* match the pattern exits with code 3 without building, extracting or
\* running the preflight check.
C18_InvalidImageExit3 ==
    (Started /\ ImageAction(cli.a) /\ cli.a.imageName # <<>>
        /\ ~imageNameRegex(cli.a.imageName)) =>
        /\ cli.P.code = exitLogError
        /\ Effects(cli.P) \cap ActionCalls = {}

PreflightRan == cli.pc = "exited" /\ "PreflightCheck" \in Effects(cli.P)

\* C19: once the preflight check has run, the exit code is 0 exactly when
\* it returned no error and a matched device; otherwise the code is 1 and
\* the warning about no compatible GPU has been logged.
C19_CheckCompatExit ==
    PreflightRan =>
        /\ cli.P.exited
        /\ (cli.P.code = exitNormal) <=> (~cli.e.preErr /\ cli.e.matched > 0)
        /\ (cli.P.code # exitNormal) =>
              (cli.P.code = exitExtractError /\ Exiting \in cli.P.warns)
        /\ (cli.e.matched = 0) => NoCompatible \in cli.P.warns

\* only unmatched devices were reported, without an error
C19_Witness ==
    /\ PreflightRan
    /\ ~cli.e.preErr /\ cli.e.matched = 0 /\ cli.e.unmatched > 0
    /\ cli.P.code = exitExtractError

\* C20: a run in which config.Initialize, the configuration of logging or
\* cmd.Execute returned an error exits with code 3.
C20_FatalExit3 ==
    (cli.pc = "exited" /\ (cli.cfgErr \/ cli.e.logErr \/ cli.execErr)) =>
        cli.P.code = exitLogError

\* ------------------------------------------------------------------------
\* Properties of SignImage
\* ------------------------------------------------------------------------

Outward == {"attach.SBOMCmd", "sign.SignCmd"}
Made(S) == {S.events[i] : i \in 1..Len(S.events)}

\* C30: SignImage (the version with an SBOM) called with no key and
\* without Sigstore, when fetching the image and its digest succeed,
\* returns the key-required error and has neither attached an SBOM nor
\* signed.
C30_KeyCheckedFirst ==
    (signing.pc = "returned" /\ signing.sbom
        /\ signing.cosignKey = "" /\ ~signing.useSigstore
        /\ ~signing.e.fetchErr /\ ~signing.e.digestErr) =>
        /\ signing.S.err = KeyRequired
        /\ Made(signing.S) \cap Outward = {}

\* ------------------------------------------------------------------------
\* Properties of concurrent access to the cache file
\* ------------------------------------------------------------------------

\* C6: a process that loads the cache file while another one is replacing
\* a complete snapshot finds the complete previous snapshot or the complete
\* new one, never a missing, empty or partial file.
C6_AtomicWrites ==
    (observed.seen /\ observed.writing /\ observed.prev.kind = "json"
        /\ writer.out = "ok") =>
        /\ observed.c.kind = "json"
        /\ observed.c \in {observed.prev, observed.new}

\* ------------------------------------------------------------------------
\* Properties of DetectVLLMCache, EntryCount, Labels and Summary
\* ------------------------------------------------------------------------

Detected == vllm.pc \in {"detected", "labelled"}

\* a directory whose only content is
\* torch_compile_cache/<outer-hash>/triton_cache/<inner-hash>/metadata.json
OnlyTorchCompileCache(t) ==
    /\ t.top = {TorchCompileCache}
    /\ ~t.deep
    /\ t.io = "ok"
    /\ Len(t.outer) = 1
    /\ t.outer[1].kind = "detected"
    /\ t.outer[1].entries = 1

\* C21: for a directory whose only content is
\* torch_compile_cache/<outer-hash>/triton_cache/<inner-hash>/metadata.json,
\* DetectVLLMCache returns a cache whose metadata has exactly one outer
\* group, keyed by the outer hash, that holds one inner kernel entry.
C21_TorchCompileCacheSentinel ==
    (Detected /\ OnlyTorchCompileCache(vllm.dir)) =>
        /\ ~vllm.cache.nil
        /\ Len(vllm.cache.allMetadata) = 1
        /\ vllm.cache.allMetadata[1].VllmHash = HashNames[1]
        /\ Len(vllm.cache.allMetadata[1].TritonCacheEntries) = 1

\* the sum of the inner kernel entries of the outer groups recorded
RECURSIVE SumOfGroups(_)
SumOfGroups(groups) ==
    IF groups = <<>> THEN 0
    ELSE Len(groups[1].TritonCacheEntries) + SumOfGroups(Tail(groups))

\* C22: the entry count of a detected cache, from EntryCount and in the
\* entry-count label, is the sum of the inner kernel entries of the outer
\* groups recorded in its metadata.
C22_EntryCountSumsGroups ==
    /\ (Detected /\ ~vllm.cache.nil) =>
           EntryCount(vllm.cache) = SumOfGroups(vllm.cache.allMetadata)
    /\ vllm.pc = "labelled" =>
           vllm.labels.entryCount = Itoa(SumOfGroups(vllm.cache.allMetadata))

\* the entries of torch_compile_cache in which a Triton cache is detected
DetectedAt(t) == {i \in 1..Len(t.outer) : t.outer[i].kind = "detected"}
LastDetected(t) == CHOOSE i \in DetectedAt(t) : \A j \in DetectedAt(t) : j <= i

\* C23: the summary of a cache with outer groups is built from the inner
\* Triton cache detected last in listing order, and from it alone: it has
\* the one group of that cache's compatibility tuple with that cache's
\* number of entries, whatever the earlier groups hold and whatever
\* directories follow in which nothing is detected.
C23_SummaryFromLastDetected ==
    (/\ vllm.pc = "labelled"
     /\ vllm.cache.allMetadata # <<>>
     /\ vllm.labels.summary # FailedSummary) =>
        LET last == vllm.dir.outer[LastDetected(vllm.dir)]
        IN  /\ vllm.labels.summary.text = "groups"
            /\ DOMAIN vllm.labels.summary.groups = {last.tuple}
            /\ vllm.labels.summary.groups[last.tuple] = last.entries

\* two groups with different tuples were recorded and a directory in
\* which nothing is detected follows them
C23_Witness ==
    /\ vllm.pc = "labelled"
    /\ vllm.labels.summary.text = "groups"
    /\ Len(vllm.dir.outer) = 3
    /\ vllm.dir.outer[1].kind = "detected"
    /\ vllm.dir.outer[2].kind = "detected"
    /\ vllm.dir.outer[2].tuple # vllm.dir.outer[1].tuple
    /\ vllm.dir.outer[3].kind = "undetected"
\* ------------------------------------------------------------------------
\* Properties of ExtractVLLMCacheDirectory
\* ------------------------------------------------------------------------

Extracted == vllm.pc = "extracted"

\* what the extraction has put on the disk
Created == vllm.X.disk \ DiskBefore

\* the entries to retain: the path begins with io.vllm.cache/ or is
\* io.vllm.manifest/manifest.json; and the place of each: its path without
\* the prefix, under the cache root or the manifest root
CachePrefix == <<"io.vllm.cache", "/">>
Retained(h) == HasPrefix(h.name, CachePrefix) \/ h.name = ManifestJSONName
PlaceOf(h) ==
    IF HasPrefix(h.name, CachePrefix)
    THEN Join(ExtractCacheDir, TrimPrefix(h.name, CachePrefix))
    ELSE Join(ExtractManifestDir, TrimPrefix(h.name, ManifestPrefix))

\* C24: whatever the extraction puts on the disk besides the two roots is
\* the place of a retained entry of the stream, or a directory on the way
\* to it; the other entries leave nothing on the disk.
C24_OnlyRetainedEntriesWritten ==
    Extracted =>
        \A d \in Created :
            \/ d.path \in {ExtractCacheDir, ExtractManifestDir}
            \/ \E i \in 1..Len(vllm.tar) :
                  /\ Retained(vllm.tar[i])
                  /\ HasPrefix(PlaceOf(vllm.tar[i]), d.path)

\* the group index files under the cache root
GroupIndexFiles ==
    {d.path : d \in {f \in vllm.X.disk :
                        /\ f.kind = "file"
                        /\ HasPrefix(f.path, ExtractCacheDir)
                        /\ f.path[Len(f.path)][1] \in GroupIndexNames
                        /\ Len(f.path[Len(f.path)]) = 1}}

EventsOf(op) ==
    {k \in 1..Len(vllm.X.events) : vllm.X.events[k].op = op}

\* C25: when every tar entry was read and written, and the walk of the
\* cache root itself does not fail, RestoreFullPathsInGroupJSON is called
\* on every group index file under the cache root, after the last entry
\* was written; where it fails there is a warning, the other files are
\* still handled, and the extraction returns without an error.
C25_RestoreFailureIsWarning ==
    (Extracted /\ vllm.e.fail = NoFailure) =>
        /\ vllm.X.err = "nil"
        /\ {vllm.X.events[k].path : k \in EventsOf("RestoreFullPathsInGroupJSON")}
               = GroupIndexFiles
        /\ \A k \in EventsOf("RestoreFullPathsInGroupJSON") :
               \A j \in EventsOf("MkdirAll") \cup EventsOf("writeFile") : j < k
        /\ \A n \in vllm.e.bad :
               \A f \in GroupIndexFiles :
                   f[Len(f)] = <<n>> =>
                       \E k \in EventsOf("Warnf") : vllm.X.events[k].path = f

\* two group index files were extracted and the restoration failed on the
\* one the walk meets first
C25_Witness ==
    /\ Extracted
    /\ vllm.e.fail = NoFailure
    /\ Cardinality(GroupIndexFiles) = 2
    /\ vllm.e.bad = {"__grp__2.json"}
    /\ vllm.X.err = "nil"
    /\ Cardinality(EventsOf("RestoreFullPathsInGroupJSON")) = 2

Inside(path) ==
    HasPrefix(path, ExtractCacheDir) \/ HasPrefix(path, ExtractManifestDir)

\* C29: every file and directory the extraction creates lies inside the
\* cache root or the manifest root, whatever the names of the tar entries.
C29_CreatedInsideRoots ==
    Extracted => \A d \in Created : Inside(d.path)

====
